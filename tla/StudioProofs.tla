---------------------------- MODULE StudioProofs -----------------------------
(***************************************************************************)
(* The two parts of the studio that meet the outside world.  Publishing to  *)
(* Bilibili, for every set of jobs, requests and sessions and for every     *)
(* number of calls and kills: a video is created at most once, and, when    *)
(* the desktop sends one upload of a job at a time, of an upload that is    *)
(* whole.  The material library, for every set of files and every number of *)
(* operations, edits and faults: a mapping that is not in doubt shows the   *)
(* bytes of its row, and what an operation reports is so.                   *)
(***************************************************************************)
EXTENDS BilibiliPublishing, MaterialLibrary, FiniteSetTheorems, WellFoundedInduction, TLAPS

UploadSteps == {"plan", "init", "token", "part", "record", "small", "uploaded"}
SubmitSteps == {"admit", "send"}
Steps == UploadSteps \cup SubmitSteps \cup {"await", "settle", "conclude", "retire", "idle"}
Works == [pc : Steps, job : Jobs \cup {None}, session : Nat \cup {None},
          token : Nat \cup {None}, todo : SUBSET Nat, answer : Answers \cup {None}]
Titles == {ct.title : ct \in Contents} \cup STRING
Archives == [id : Nat, title : Titles, job : Jobs \cup {None}, token : Nat \cup {None},
             recent : BOOLEAN, state : {"review", "open", "rejected"}]

CallerOK ==
    /\ caller \in [Callers -> Works]
    /\ \A c \in Callers : /\ caller[c].pc # "idle" => caller[c].job \in Jobs
                          /\ caller[c].pc = "settle" => caller[c].answer # None
                          /\ caller[c].pc = "record" => caller[c].todo # {}

TypeOK ==
    /\ attempt \in [Jobs -> Attempts \cup {None}]
    /\ parts \in [Jobs -> SUBSET Nat]
    /\ sessions \subseteq [token : Nat, installation : Installations, job : Jobs]
    /\ issued \in Nat
    /\ CallerOK
    /\ uploads \in Seq(SUBSET Nat)
    /\ requests \subseteq [job : Jobs, token : Nat \cup {None}]
    /\ answers \in [Jobs -> Answers \cup {None}]
    /\ archives \in Seq(Archives)

(* A job whose creation was never admitted.                                  *)
Early(j) == Phase(j) \in {None, "prepared", "video_uploaded"}

(* Where the creation of a job may be: about to be sent, with the platform,  *)
(* or carried out (counted from the oldest archive).                         *)
Senders(j) == {c \in Callers : caller[c].pc = "send" /\ caller[c].job = j}
Asked(j) == {r \in requests : r.job = j}
Made(j) == {n \in 1..Len(archives) : archives[Len(archives) + 1 - n].job = j}

OneOf(S) == \A x, y \in S : x = y

(* It is in one place, and nowhere before it was admitted.                   *)
CreationOK ==
    \A j \in Jobs :
        /\ Early(j) => Senders(j) = {} /\ Asked(j) = {} /\ Made(j) = {}
        /\ Senders(j) # {} => Asked(j) = {} /\ Made(j) = {}
        /\ Asked(j) # {} => Made(j) = {}
        /\ OneOf(Senders(j)) /\ OneOf(Asked(j)) /\ OneOf(Made(j))

OnceInv == TypeOK /\ CreationOK

-----------------------------------------------------------------------------
(* What the upload of a whole video leaves under its token.                  *)
Needed(j) == IF PartsOf[j] = 0 THEN {1} ELSE 1..PartsOf[j]
Token(j) == IF attempt[j] = None THEN None ELSE attempt[j].token
Uploads(c) == caller[c].pc \in UploadSteps

(* What is recorded of a job's upload was sent under its recorded token.     *)
UploadOK(j) ==
    /\ Token(j) = None => parts[j] = {} /\ Phase(j) \in {None, "prepared"}
    /\ Token(j) # None =>
          /\ Token(j) \in 1..Len(uploads)
          /\ parts[j] \subseteq uploads[Token(j)]
          /\ uploads[Token(j)] \subseteq Needed(j)
          /\ \A k \in Jobs : Token(k) = Token(j) => k = j
          /\ Phase(j) # "prepared" => uploads[Token(j)] = Needed(j)

(* The one upload of a job that runs knows its token and what is missing.    *)
UploaderOK(c) ==
    LET w == caller[c] IN
    /\ Phase(w.job) = "prepared"
    /\ w.pc # "token" => w.token = Token(w.job)
    /\ w.pc \in {"init", "token"} => Token(w.job) = None
    /\ w.pc \in {"part", "record", "small", "uploaded"} => w.token # None
    /\ w.pc \in {"part", "record"} => PartsOf[w.job] # 0
    /\ w.pc = "small" => PartsOf[w.job] = 0
    /\ w.pc \in {"init", "token", "part", "record"} =>
          w.todo = (1..PartsOf[w.job]) \ parts[w.job]
    /\ w.pc = "record" => NextPart(c) \in w.todo \cap uploads[w.token]
    /\ w.pc = "uploaded" => uploads[w.token] = Needed(w.job)

(* A token that was obtained and not recorded yet is nobody else's.          *)
FreshOK(c) ==
    /\ caller[c].token \in 1..Len(uploads)
    /\ uploads[caller[c].token] = {}
    /\ \A j \in Jobs : Token(j) # caller[c].token
    /\ \A d \in Callers : caller[d].pc = "token" /\ caller[d].token = caller[c].token => d = c

Past(j) == Phase(j) \notin {None, "prepared"}

WholeOK ==
    /\ \A j \in Jobs : UploadOK(j)
    /\ \A c \in Callers : Uploads(c) => UploaderOK(c)
    /\ \A c, d \in Callers : Uploads(c) /\ Uploads(d) /\ caller[c].job = caller[d].job => c = d
    /\ \A c \in Callers : caller[c].pc = "token" => FreshOK(c)
    /\ \A c \in Callers : caller[c].pc \in SubmitSteps =>
          Past(caller[c].job) /\ caller[c].token = Token(caller[c].job)
    /\ \A r \in requests : Past(r.job) /\ r.token = Token(r.job)
    /\ \A n \in 1..Len(archives) : archives[n].job # None =>
          Past(archives[n].job) /\ archives[n].token = Token(archives[n].job)


-----------------------------------------------------------------------------
(* Creation *)

(* A function of the first naturals is a sequence of that length.            *)
LEMMA Numbered ==
  ASSUME NEW X, NEW k \in Nat, NEW f \in [1..k -> X]
  PROVE  f \in Seq(X)
OBVIOUS

(* A set of naturals that is not empty has a least element, the next part.   *)
LEMMA Least ==
  ASSUME NEW S \in SUBSET Nat, S # {}
  PROVE  \E m \in S : \A k \in S : m <= k
<1>1. PICK m \in S : \A k \in S : <<k, m>> \notin OpToRel(<, Nat)
  BY WFMin, NatLessThanWellFounded
<1>2. ASSUME NEW k \in S
      PROVE  m <= k
  <2>1. <<k, m>> \in Nat \X Nat /\ <<k, m>>[1] = k /\ <<k, m>>[2] = m
    OBVIOUS
  <2>2. ~(k < m)
    BY <1>1, <2>1 DEF OpToRel
  <2> QED
    BY <2>2
<1> QED
  BY <1>2

(* The part a request transfers next is one of those it has left to do.     *)
LEMMA LeastPart ==
  ASSUME NEW c \in Callers, caller[c].todo \in SUBSET Nat, caller[c].todo # {}
  PROVE  NextPart(c) \in caller[c].todo
<1>1. \E p \in caller[c].todo : \A q \in caller[c].todo : p <= q
  BY Least
<1> QED
  BY <1>1 DEF NextPart

(* None is no job, no number, no row, no answer and no phase.                *)
LEMMA Nothing ==
    /\ None \notin Jobs /\ None \notin Nat /\ None \notin Attempts /\ None \notin Answers
    /\ None \notin Phases
  BY BilibiliAssumption

(* The phase and the token of an attempt that is there, or none.             *)
LEMMA Parts ==
  ASSUME TypeOK, NEW j \in Jobs
  PROVE  /\ Phase(j) \in Phases \cup {None} /\ Token(j) \in Nat \cup {None}
         /\ attempt[j] # None => attempt[j] \in Attempts
  BY DEF TypeOK, Phase, Token, Attempts

(* Everything starts empty but for the account's older archives.             *)
LEMMA TypeInit == Init => TypeOK
<1> SUFFICES ASSUME Init PROVE TypeOK
  OBVIOUS
<1>1. Idle \in Works
  BY DEF Idle, Works, Steps
<1>2. archives \in Seq(Archives)
  <2>1. OldTitles \in Seq(STRING) /\ Len(OldTitles) \in Nat
    BY BilibiliAssumption
  <2>2. \A n \in 1..Len(OldTitles) : Archive(n, OldTitles[n], None, None, FALSE) \in Archives
    BY <2>1 DEF Archive, Archives, Titles
  <2>3. archives \in [1..Len(OldTitles) -> Archives]
    BY <2>2 DEF Init
  <2> QED
    BY <2>1, <2>3, Numbered
<1>3. caller \in [Callers -> Works]
  BY <1>1 DEF Init
<1>4. \A c \in Callers : caller[c].pc = "idle"
  BY DEF Init, Idle
<1>5. uploads \in Seq(SUBSET Nat)
  BY DEF Init
<1> QED
  BY <1>2, <1>3, <1>4, <1>5 DEF Init, TypeOK, CallerOK

(* What the requests do to their own records, and to what is stored.         *)
LEMMA TypeCalls ==
  ASSUME TypeOK, NEW c \in Callers, NEW s \in sessions, UploadBegin(c, s) \/ SubmitBegin(c, s)
  PROVE  TypeOK'
<1>1. s.job \in Jobs /\ s.token \in Nat
  BY DEF TypeOK
<1>2. attempt[s.job] # None => attempt[s.job].token \in Nat \cup {None}
  BY <1>1, Parts DEF Token
<1>3. CASE UploadBegin(c, s)
  <2>1. attempt[s.job] # None
    BY <1>3, Nothing DEF UploadBegin, Phase, Phases
  <2>2. [Idle EXCEPT !.pc = "plan", !.job = s.job, !.session = s.token,
                     !.token = attempt[s.job].token] \in Works
    BY <1>1, <1>2, <2>1 DEF Idle, Works, Steps, UploadSteps
  <2> QED
    BY <1>1, <1>3, <2>2 DEF UploadBegin, Starts, TypeOK, CallerOK, durable, platform, Idle
<1>4. CASE SubmitBegin(c, s)
  <2> DEFINE next == IF Phase(s.job) \in {"submitted", "dispatched"} THEN "conclude"
                     ELSE IF Submittable(s.job) THEN "admit" ELSE "retire"
  <2>1. [Idle EXCEPT !.pc = next, !.job = s.job, !.session = s.token,
                     !.token = attempt[s.job].token] \in Works
    BY <1>1, <1>2, <1>4 DEF SubmitBegin, Idle, Works, Steps, SubmitSteps
  <2> QED
    BY <1>1, <1>4, <2>1 DEF SubmitBegin, Starts, TypeOK, CallerOK, durable, platform, Idle
<1> QED
  BY <1>3, <1>4

(* One request moves on, the others stay where they are.                     *)
LEMMA CallerMoves ==
  ASSUME CallerOK, NEW c \in Callers, NEW w \in Works, caller' = [caller EXCEPT ![c] = w],
         w.pc # "idle" => w.job \in Jobs, w.pc = "settle" => w.answer # None, w.pc = "record" => w.todo # {}
  PROVE  CallerOK'
  BY DEF CallerOK

(* A request that is being handled moves to another step of its handling.   *)
LEMMA CallerGoes ==
  ASSUME CallerOK, NEW c \in Callers, caller[c].pc # "idle", NEW p \in Steps \ {"settle"},
         Goto(c, p), p = "record" => caller[c].todo # {}
  PROVE  CallerOK'
<1> DEFINE w == [caller[c] EXCEPT !.pc = p]
<1>1. caller[c] \in Works /\ caller[c].job \in Jobs
  BY DEF CallerOK
<1>2. w \in Works /\ w.pc = p /\ w.job \in Jobs /\ w.todo = caller[c].todo
  BY <1>1 DEF Works
<1>3. caller' = [caller EXCEPT ![c] = w]
  BY DEF Goto
<1> QED
  BY <1>2, <1>3, CallerMoves

(* A request that ends leaves the records of the others as they are.        *)
LEMMA CallerEnds ==
  ASSUME CallerOK, NEW c \in Callers, Finish(c)
  PROVE  CallerOK'
<1>1. Idle \in Works /\ Idle.pc = "idle"
  BY DEF Idle, Works, Steps
<1> QED
  BY <1>1, CallerMoves DEF Finish

(* What an upload does to its request and to what is stored.                 *)
LEMMA TypeUpload ==
  ASSUME TypeOK, NEW c \in Callers,
         \/ UploadPlan(c) \/ InitializeUpload(c) \/ RecordUploadToken(c) \/ UploadPart(c)
         \/ RecordPartCompleted(c) \/ UploadSmallFile(c) \/ CompleteUpload(c)
         \/ RecordVideoUploaded(c) \/ UploadFails(c)
  PROVE  TypeOK'
<1> DEFINE j == caller[c].job
<1> USE Nothing
<1>1. CallerOK /\ caller[c] \in Works /\ (caller[c].pc # "idle" => j \in Jobs)
  BY DEF TypeOK, CallerOK
<1>2. CASE UploadPlan(c)
  <2>1. j \in Jobs /\ PartsOf[j] \in Nat
    BY <1>1, <1>2, BilibiliAssumption DEF UploadPlan
  <2>6. (1..PartsOf[j]) \ parts[j] \in SUBSET Nat
    BY <2>1
  <2>2. PICK t \in SUBSET Nat : t = (1..PartsOf[j]) \ parts[j]
    BY <2>6
  <2>3. PICK p \in Steps \ {"settle", "record"} : p = Continue(c, caller[c].token)
    BY DEF Continue, Steps, UploadSteps
  <2> DEFINE w == [caller[c] EXCEPT !.todo = t, !.pc = p]
  <2>4. w \in Works /\ w.job = j /\ w.pc = p
    BY <1>1 DEF Works
  <2>5. caller' = [caller EXCEPT ![c] = w]
    BY <1>2, <2>2, <2>3 DEF UploadPlan
  <2> HIDE DEF w
  <2> QED
    BY <1>1, <1>2, <2>1, <2>4, <2>5, CallerMoves DEF UploadPlan, TypeOK, durable, platform
<1>3. CASE InitializeUpload(c)
  <2> DEFINE w == [caller[c] EXCEPT !.token = Len(uploads) + 1, !.pc = "token"]
  <2>1. uploads \in Seq(SUBSET Nat) /\ Len(uploads) + 1 \in Nat
    BY DEF TypeOK
  <2>2. w \in Works /\ w.job = j /\ w.pc \notin {"settle", "record"} /\ j \in Jobs
    BY <1>1, <1>3, <2>1 DEF Works, Steps, UploadSteps, InitializeUpload
  <2>3. caller' = [caller EXCEPT ![c] = w]
    BY <1>3 DEF InitializeUpload
  <2>4. Append(uploads, {}) \in Seq(SUBSET Nat)
    BY <2>1
  <2> QED
    BY <1>1, <1>3, <2>2, <2>3, <2>4, CallerMoves DEF InitializeUpload, TypeOK, durable
<1>4. CASE RecordUploadToken(c)
  <2>1. j \in Jobs
    BY <1>1, <1>4 DEF RecordUploadToken
  <2>2. CASE Phase(j) = "prepared"
    <3>1. attempt[j] \in Attempts
      BY <2>1, <2>2, Parts DEF Phase, Phases
    <3>2. [attempt[j] EXCEPT !.token = caller[c].token] \in Attempts
      BY <1>1, <3>1 DEF Attempts, Works
    <3>3. attempt' \in [Jobs -> Attempts \cup {None}]
      BY <1>4, <2>1, <2>2, <3>2 DEF RecordUploadToken, TypeOK
    <3>4. Continue(c, caller[c].token) \in Steps \ {"settle", "record"}
      BY DEF Continue, Steps, UploadSteps
    <3>5. CallerOK'
      BY <1>1, <1>4, <2>2, <3>4, CallerGoes DEF RecordUploadToken
    <3> QED
      BY <1>4, <3>3, <3>5 DEF RecordUploadToken, TypeOK, platform
  <2>3. CASE Phase(j) # "prepared"
    BY <1>1, <1>4, <2>3, CallerEnds DEF RecordUploadToken, TypeOK, platform
  <2> QED
    BY <2>2, <2>3
<1>5. CASE UploadPart(c) \/ UploadSmallFile(c)
  <2>1. "record" \in Steps \ {"settle"} /\ "uploaded" \in Steps \ {"settle"}
    BY DEF Steps, UploadSteps
  <2>2. CallerOK'
    BY <1>1, <1>5, <2>1, CallerGoes DEF UploadPart, UploadSmallFile
  <2>3. ASSUME UploadPart(c) PROVE uploads' \in Seq(SUBSET Nat)
    <3>1. NextPart(c) \in Nat
      BY <1>1, <2>3, LeastPart DEF UploadPart, Works
    <3>2. uploads \in Seq(SUBSET Nat)
      BY DEF TypeOK
    <3>3. CASE caller[c].token \in DOMAIN uploads
      <4>1. PICK S \in SUBSET Nat : S = uploads[caller[c].token] \cup {NextPart(c)}
        <5>1. uploads[caller[c].token] \in SUBSET Nat
          BY <3>2, <3>3
        <5>2. uploads[caller[c].token] \cup {NextPart(c)} \in SUBSET Nat
          BY <3>1, <5>1
        <5> QED
          BY <5>2
      <4>2. uploads' = [uploads EXCEPT ![caller[c].token] = S]
        BY <2>3, <4>1 DEF UploadPart
      <4>3. uploads \in [1..Len(uploads) -> SUBSET Nat] /\ Len(uploads) \in Nat
        BY <3>2
      <4>4. uploads' \in [1..Len(uploads) -> SUBSET Nat]
        BY <4>2, <4>3
      <4> QED
        BY <4>3, <4>4, Numbered
    <3>4. CASE caller[c].token \notin DOMAIN uploads
      <4>1. uploads \in [1..Len(uploads) -> SUBSET Nat] /\ Len(uploads) \in Nat
            /\ DOMAIN uploads = 1..Len(uploads)
        BY <3>2
      <4>2. uploads' \in [1..Len(uploads) -> SUBSET Nat]
        BY <2>3, <3>4, <4>1 DEF UploadPart
      <4> QED
        BY <4>1, <4>2, Numbered
    <3> QED
      BY <3>3, <3>4
  <2>4. uploads' \in Seq(SUBSET Nat)
    BY <1>5, <2>3 DEF UploadSmallFile, TypeOK
  <2> QED
    BY <1>5, <2>2, <2>4 DEF UploadPart, UploadSmallFile, TypeOK, durable
<1>6. CASE RecordPartCompleted(c)
  <2>1. j \in Jobs
    BY <1>1, <1>6 DEF RecordPartCompleted
  <2>2. CASE Phase(j) = "prepared"
    <3>1. NextPart(c) \in Nat
      BY <1>1, <1>6, LeastPart DEF RecordPartCompleted, CallerOK, Works
    <3>2. PICK t \in SUBSET Nat : t = caller[c].todo \ {NextPart(c)}
      BY <1>1 DEF Works
    <3> DEFINE w == [caller[c] EXCEPT !.todo = t, !.pc = "part"]
    <3>4. w \in Works /\ w.job = j /\ w.pc = "part"
      BY <1>1 DEF Works, Steps, UploadSteps
    <3>5. caller' = [caller EXCEPT ![c] = w]
      BY <1>6, <2>2, <3>2 DEF RecordPartCompleted
    <3> HIDE DEF w
    <3>3. CallerOK'
      BY <1>1, <2>1, <3>4, <3>5, CallerMoves
    <3> QED
      BY <1>6, <2>1, <2>2, <3>1, <3>3 DEF RecordPartCompleted, TypeOK, platform
  <2>3. CASE Phase(j) # "prepared"
    BY <1>1, <1>6, <2>3, CallerEnds DEF RecordPartCompleted, TypeOK, platform
  <2> QED
    BY <2>2, <2>3
<1>7. CASE CompleteUpload(c)
  <2>1. "uploaded" \in Steps \ {"settle"}
    BY DEF Steps, UploadSteps
  <2> QED
    BY <1>1, <1>7, <2>1, CallerGoes DEF CompleteUpload, TypeOK, durable, platform
<1>8. CASE RecordVideoUploaded(c)
  <2>1. j \in Jobs
    BY <1>1, <1>8 DEF RecordVideoUploaded
  <2>2. attempt' \in [Jobs -> Attempts \cup {None}]
    <3>1. CASE Phase(j) = "prepared"
      <4>1. attempt[j] \in Attempts
        BY <2>1, <3>1, Parts DEF Phase, Phases
      <4>2. [attempt[j] EXCEPT !.phase = "video_uploaded"] \in Attempts
        BY <4>1 DEF Attempts, Phases
      <4> QED
        BY <1>8, <2>1, <4>2 DEF RecordVideoUploaded, TypeOK
    <3> QED
      BY <1>8, <3>1 DEF RecordVideoUploaded, TypeOK
  <2> QED
    BY <1>1, <1>8, <2>2, CallerEnds DEF RecordVideoUploaded, TypeOK, platform
<1>9. CASE UploadFails(c)
  BY <1>1, <1>9, CallerEnds DEF UploadFails, TypeOK, durable, platform
<1> QED
  BY <1>2, <1>3, <1>4, <1>5, <1>6, <1>7, <1>8, <1>9

(* An answer settles a dispatched attempt in a phase of its own, and touches *)
(* neither another attempt nor the token.                                    *)
LEMMA Settling ==
  ASSUME TypeOK, NEW j \in Jobs, Phase(j) = "dispatched", NEW a \in Answers
  PROVE  /\ SettlePhase(j, a) \in [Jobs -> Attempts \cup {None}]
         /\ SettlePhase(j, a)[j].phase \in {"outcome_uncertain", "failed", "submitted"}
         /\ SettlePhase(j, a)[j].token = attempt[j].token
         /\ SettlePhase(j, a)[j] # None
         /\ \A k \in Jobs \ {j} : SettlePhase(j, a)[k] = attempt[k]
<1>1. attempt[j] \in Attempts /\ attempt \in [Jobs -> Attempts \cup {None}]
  BY Parts, Nothing DEF Phase, Phases, TypeOK
<1>2. PICK p \in {"outcome_uncertain", "failed", "submitted"} :
        p = CASE a.kind = "lost" -> "outcome_uncertain"
              [] a.kind = "refused" -> "failed"
              [] a.kind = "created" -> "submitted"
  BY DEF Answers
<1>3. PICK r \in Attempts : /\ r = [attempt[j] EXCEPT !.phase = p, !.resource = a.id]
                            /\ r.phase = p /\ r.token = attempt[j].token
  <2>1. [attempt[j] EXCEPT !.phase = p, !.resource = a.id] \in Attempts
    BY <1>1 DEF Attempts, Answers, Phases
  <2>2. /\ [attempt[j] EXCEPT !.phase = p, !.resource = a.id].phase = p
        /\ [attempt[j] EXCEPT !.phase = p, !.resource = a.id].token = attempt[j].token
    BY <1>1 DEF Attempts
  <2> QED
    BY <2>1, <2>2
<1>4. SettlePhase(j, a) = [attempt EXCEPT ![j] = r]
  BY <1>1, <1>2, <1>3 DEF SettlePhase
<1> QED
  BY <1>1, <1>3, <1>4, Nothing

(* What the submission does.                                                 *)
LEMMA TypeSubmit ==
  ASSUME TypeOK, NEW c \in Callers,
         \/ BeginArchiveCreation(c) \/ TokenUnavailable(c) \/ SendArchiveAdd(c)
         \/ ReceiveAnswer(c) \/ AnswerLost(c) \/ SettleCreation(c) \/ Conclude(c)
         \/ RetireSession(c)
  PROVE  TypeOK'
<1> DEFINE j == caller[c].job
<1> USE Nothing
<1>1. CallerOK /\ caller[c] \in Works /\ (caller[c].pc # "idle" => j \in Jobs)
  BY DEF TypeOK, CallerOK
<1>2. {"admit", "send", "await", "conclude", "retire"} \subseteq Steps \ {"settle", "record"}
  BY DEF Steps, SubmitSteps
<1>3. CASE BeginArchiveCreation(c)
  <2>1. j \in Jobs
    BY <1>1, <1>3 DEF BeginArchiveCreation
  <2>2. CallerOK'
    BY <1>1, <1>2, <1>3, CallerGoes DEF BeginArchiveCreation
  <2>3. attempt' \in [Jobs -> Attempts \cup {None}]
    <3>1. CASE Admitted(j)
      <4>1. attempt[j] \in Attempts
        BY <2>1, <3>1, Parts DEF Admitted, Phase, Phases
      <4>2. [attempt[j] EXCEPT !.phase = "dispatched"] \in Attempts
        BY <4>1 DEF Attempts, Phases
      <4> QED
        BY <1>3, <2>1, <3>1, <4>2 DEF BeginArchiveCreation, TypeOK
    <3> QED
      BY <1>3, <3>1 DEF BeginArchiveCreation, TypeOK
  <2> QED
    BY <1>3, <2>2, <2>3 DEF BeginArchiveCreation, TypeOK, platform
<1>4. CASE TokenUnavailable(c)
  BY <1>1, <1>2, <1>4, CallerGoes DEF TokenUnavailable, TypeOK, durable, platform
<1>5. CASE SendArchiveAdd(c)
  <2>1. [job |-> j, token |-> caller[c].token] \in [job : Jobs, token : Nat \cup {None}]
    BY <1>1, <1>5 DEF SendArchiveAdd, Works
  <2>2. CallerOK'
    BY <1>1, <1>2, <1>5, CallerGoes DEF SendArchiveAdd
  <2> QED
    BY <1>5, <2>1, <2>2 DEF SendArchiveAdd, TypeOK, durable
<1>6. CASE ReceiveAnswer(c)
  <2> DEFINE w == [caller[c] EXCEPT !.answer = answers[j], !.pc = "settle"]
  <2>1. j \in Jobs /\ answers[j] \in Answers
    BY <1>1, <1>6 DEF ReceiveAnswer, TypeOK
  <2>2. w \in Works /\ w.job = j /\ w.pc = "settle" /\ w.answer = answers[j]
    BY <1>1, <2>1 DEF Works, Steps
  <2>3. caller' = [caller EXCEPT ![c] = w]
    BY <1>6 DEF ReceiveAnswer
  <2> HIDE DEF w
  <2>4. CallerOK'
    BY <1>1, <2>1, <2>2, <2>3, CallerMoves
  <2> QED
    BY <1>6, <2>4 DEF ReceiveAnswer, TypeOK, durable, platform
<1>7. CASE AnswerLost(c)
  <2>1. PICK a \in Answers : a = Answer("lost", None)
    BY DEF Answer, Answers
  <2> DEFINE w == [caller[c] EXCEPT !.answer = a, !.pc = "settle"]
  <2>2. w \in Works /\ w.job = j /\ w.pc = "settle" /\ w.answer = a
    BY <1>1 DEF Works, Steps
  <2>3. caller' = [caller EXCEPT ![c] = w]
    BY <1>7, <2>1 DEF AnswerLost
  <2>4. j \in Jobs
    BY <1>1, <1>7 DEF AnswerLost
  <2> HIDE DEF w
  <2>5. CallerOK'
    BY <1>1, <2>2, <2>3, <2>4, CallerMoves
  <2> QED
    BY <1>7, <2>5 DEF AnswerLost, TypeOK, durable, platform
<1>8. CASE SettleCreation(c)
  <2>1. j \in Jobs /\ caller[c].answer \in Answers
    BY <1>1, <1>8 DEF SettleCreation, CallerOK, Works
  <2>2. CallerOK'
    BY <1>1, <1>2, <1>8, CallerGoes DEF SettleCreation
  <2>3. attempt' \in [Jobs -> Attempts \cup {None}]
    <3>1. CASE Phase(j) = "dispatched"
      BY <1>8, <2>1, <3>1, Settling DEF SettleCreation, TypeOK
    <3> QED
      BY <1>8, <3>1 DEF SettleCreation, TypeOK
  <2> QED
    BY <1>8, <2>2, <2>3 DEF SettleCreation, TypeOK, platform
<1>9. CASE Conclude(c)
  <2>1. Retired(c) \subseteq sessions
    BY DEF Retired
  <2> QED
    BY <1>1, <1>9, <2>1, CallerEnds DEF Conclude, TypeOK, platform
<1>10. CASE RetireSession(c)
  <2>1. Retired(c) \subseteq sessions
    BY DEF Retired
  <2> QED
    BY <1>1, <1>10, <2>1, CallerEnds DEF RetireSession, TypeOK, durable, platform
<1> QED
  BY <1>3, <1>4, <1>5, <1>6, <1>7, <1>8, <1>9, <1>10

(* Reconciling reads attempts, and fences them as uncertain; no more.        *)
LEMMA ReconciliationReads ==
  ASSUME Reconciliation
  PROVE  RecoverFence \/ ReconcileFence \/ UNCHANGED <<attempt, parts, runtime, platform>>
<1> SUFFICES ASSUME ~RecoverFence, ~ReconcileFence
             PROVE  UNCHANGED <<attempt, parts, runtime, platform>>
  OBVIOUS
<1>1. CASE RecoverBegin \/ RecoverEnsure \/ (\E j \in Jobs : ReconcileBegin(j))
  BY <1>1 DEF RecoverBegin, RecoverEnsure, ReconcileBegin, durable
<1>2. CASE ListPage \/ AdoptResourceId \/ QueryView \/ QuerySetback
  BY <1>2 DEF ListPage, AdoptResourceId, QueryView, QuerySetback, durable
<1>3. CASE SettleView \/ SettleAbsent
  BY <1>3 DEF SettleView, SettleAbsent
<1>4. CASE \E n \in 1..Len(archives) : ApplyNotification(n)
  BY <1>4 DEF ApplyNotification
<1> QED
  BY <1>1, <1>2, <1>3, <1>4 DEF Reconciliation

(* What the platform does.                                                   *)
LEMMA TypePlatform ==
  ASSUME TypeOK, CreationOK, Platform
  PROVE  TypeOK'
<1>1. ASSUME NEW r \in requests, CarryOut(r)
      PROVE  TypeOK'
  <2> DEFINE a == Archive(Len(archives) + 1, attempt[r.job].content.title, r.job, r.token, TRUE)
  <2>1. r.job \in Jobs /\ r.token \in Nat \cup {None}
    BY DEF TypeOK
  <2>2. attempt[r.job] \in Attempts
    <3>1. Asked(r.job) # {}
      BY DEF Asked
    <3>2. ~Early(r.job)
      BY <2>1, <3>1 DEF CreationOK
    <3> QED
      BY <2>1, <3>2, Parts DEF Early, Phase
  <2>3. archives \in Seq(Archives) /\ Len(archives) + 1 \in Nat
    BY DEF TypeOK
  <2>4. attempt[r.job].content.title \in Titles
    BY <2>2 DEF Attempts, Titles
  <2>5. a \in Archives
    BY <2>1, <2>3, <2>4 DEF Archive, Archives
  <2>6. archives' \in Seq(Archives)
    <3>1. archives' = <<a>> \o archives
      BY <1>1 DEF CarryOut
    <3> HIDE DEF a
    <3>2. <<a>> \in Seq(Archives)
      BY <2>5
    <3> QED
      BY <2>3, <3>1, <3>2
  <2>7. Answer("created", Len(archives) + 1) \in Answers
    BY <2>3 DEF Answer, Answers
  <2>8. answers' \in [Jobs -> Answers \cup {None}]
    BY <1>1, <2>1, <2>7 DEF CarryOut, TypeOK
  <2> QED
    BY <1>1, <2>6, <2>8 DEF CarryOut, TypeOK, CallerOK, durable, runtime
<1>2. ASSUME NEW r \in requests, Refuse(r)
      PROVE  TypeOK'
  <2>1. Answer("refused", None) \in Answers
    BY DEF Answer, Answers
  <2>2. answers' \in [Jobs -> Answers \cup {None}]
    BY <1>2, <2>1 DEF Refuse, TypeOK
  <2> QED
    BY <1>2, <2>2 DEF Refuse, TypeOK, CallerOK, durable, runtime
<1>3. ASSUME NEW n \in 1..Len(archives), Review(n)
      PROVE  TypeOK'
  <2>1. PICK v \in {"open", "rejected"} : archives' = [archives EXCEPT ![n].state = v]
    BY <1>3 DEF Review
  <2>2. archives \in Seq(Archives) /\ archives[n] \in Archives
    BY <1>3 DEF TypeOK
  <2>3. PICK a \in Archives : a = [archives[n] EXCEPT !.state = v]
    <3>1. [archives[n] EXCEPT !.state = v] \in Archives
      BY <2>2 DEF Archives
    <3> QED
      BY <3>1
  <2>4. archives' = [archives EXCEPT ![n] = a]
    BY <2>1, <2>2, <2>3
  <2>5. archives' \in Seq(Archives)
    BY <2>2, <2>4
  <2> QED
    BY <1>3, <2>5 DEF Review, TypeOK, CallerOK, durable, runtime
<1> QED
  BY <1>1, <1>2, <1>3 DEF Platform

(* The reconciliation changes no more of an attempt than its phase.          *)
LEMMA Fencing ==
  ASSUME TypeOK, NEW j, Phase(j) = "dispatched", attempt' = Fenced(j)
  PROVE  /\ attempt' \in [Jobs -> Attempts \cup {None}]
         /\ \A k \in Jobs : k # j => attempt'[k] = attempt[k]
         /\ j \in Jobs => /\ attempt'[j] \in Attempts
                          /\ attempt'[j].phase = "outcome_uncertain"
                          /\ attempt'[j].token = attempt[j].token
<1>1. attempt \in [Jobs -> Attempts \cup {None}]
  BY DEF TypeOK
<1>2. CASE j \in Jobs
  <2>1. attempt[j] \in Attempts
    BY <1>2, Parts, Nothing DEF Phase, Phases
  <2>2. PICK r \in Attempts : /\ r = [attempt[j] EXCEPT !.phase = "outcome_uncertain"]
                              /\ r.phase = "outcome_uncertain" /\ r.token = attempt[j].token
    <3>1. [attempt[j] EXCEPT !.phase = "outcome_uncertain"] \in Attempts
      BY <2>1 DEF Attempts, Phases
    <3>2. /\ [attempt[j] EXCEPT !.phase = "outcome_uncertain"].phase = "outcome_uncertain"
          /\ [attempt[j] EXCEPT !.phase = "outcome_uncertain"].token = attempt[j].token
      BY <2>1 DEF Attempts
    <3> QED
      BY <3>1, <3>2
  <2>3. attempt' = [attempt EXCEPT ![j] = r]
    BY <2>2 DEF Fenced
  <2> QED
    BY <1>1, <1>2, <2>2, <2>3
<1>3. CASE j \notin Jobs
  BY <1>1, <1>3 DEF Fenced
<1> QED
  BY <1>2, <1>3

(* What the reconciliation does to what is stored.                          *)
LEMMA TypeReconciliation ==
  ASSUME TypeOK, Reconciliation
  PROVE  TypeOK'
<1>1. CASE UNCHANGED <<attempt, parts, runtime, platform>>
  BY <1>1 DEF TypeOK, CallerOK, runtime, platform
<1>2. CASE RecoverFence
  <2>1. CASE Phase(Head(reconciler.queue).job) = "dispatched"
    <3>1. attempt' = Fenced(Head(reconciler.queue).job)
      BY <1>2, <2>1 DEF RecoverFence
    <3>2. attempt' \in [Jobs -> Attempts \cup {None}]
      BY <2>1, <3>1, Fencing
    <3> QED
      BY <1>2, <3>2 DEF RecoverFence, TypeOK, CallerOK, runtime, platform
  <2> QED
    BY <1>2, <2>1 DEF RecoverFence, TypeOK, CallerOK, runtime, platform
<1>3. CASE ReconcileFence
  <2>1. CASE Phase(reconciler.job) = "dispatched"
    <3>1. attempt' = Fenced(reconciler.job)
      BY <1>3, <2>1 DEF ReconcileFence
    <3>2. attempt' \in [Jobs -> Attempts \cup {None}]
      BY <2>1, <3>1, Fencing
    <3> QED
      BY <1>3, <3>2 DEF ReconcileFence, TypeOK, CallerOK, runtime, platform
  <2> QED
    BY <1>3, <2>1 DEF ReconcileFence, TypeOK, CallerOK, runtime, platform
<1> QED
  BY <1>1, <1>2, <1>3, ReconciliationReads

(* What prepare, the end of a session, the cover and a kill do to it.       *)
LEMMA TypeRest ==
  ASSUME TypeOK,
         \/ \E i \in Installations, j \in Jobs : \E ct \in ContentsOf[j] : Prepare(i, j, ct)
         \/ \E s \in sessions : CloseSession(s)
         \/ \E j \in Jobs : UploadCover(j)
         \/ Kill
  PROVE  TypeOK'
<1>1. ASSUME NEW i \in Installations, NEW j \in Jobs, NEW ct \in ContentsOf[j], Prepare(i, j, ct)
      PROVE  TypeOK'
  <2>1. NewAttempt(ct) \in Attempts
    BY DEF NewAttempt, Attempts, Phases, Contents
  <2>2. attempt' \in [Jobs -> Attempts \cup {None}]
    BY <1>1, <2>1 DEF Prepare, TypeOK
  <2>3. issued + 1 \in Nat /\ issued' = issued + 1
    BY <1>1 DEF Prepare, TypeOK
  <2>4. [token |-> issued + 1, installation |-> i, job |-> j]
          \in [token : Nat, installation : Installations, job : Jobs]
    BY <2>3
  <2>5. sessions' \subseteq [token : Nat, installation : Installations, job : Jobs]
    BY <1>1, <2>4 DEF Prepare, TypeOK
  <2> QED
    BY <1>1, <2>2, <2>3, <2>5 DEF Prepare, TypeOK, CallerOK, platform
<1>2. ASSUME NEW s \in sessions, CloseSession(s)
      PROVE  TypeOK'
  BY <1>2 DEF CloseSession, TypeOK, CallerOK, durable, platform
<1>3. ASSUME NEW j \in Jobs, UploadCover(j)
      PROVE  TypeOK'
  <2>1. attempt[j] \in Attempts
    BY <1>3, Parts, Nothing DEF UploadCover, Phase, Phases
  <2>2. [attempt[j] EXCEPT !.cover = TRUE] \in Attempts
    BY <2>1 DEF Attempts
  <2>3. attempt' \in [Jobs -> Attempts \cup {None}]
    BY <1>3, <2>2 DEF UploadCover, TypeOK
  <2> QED
    BY <1>3, <2>3 DEF UploadCover, TypeOK, CallerOK, runtime, platform
<1>4. CASE Kill
  <2>1. Idle \in Works /\ Idle.pc = "idle"
    BY DEF Idle, Works, Steps
  <2>2. CallerOK'
    BY <1>4, <2>1 DEF Kill, CallerOK
  <2> QED
    BY <1>4, <2>2 DEF Kill, TypeOK, durable, platform
<1> QED
  BY <1>1, <1>2, <1>3, <1>4

-----------------------------------------------------------------------------
(* One creation *)

(* Nothing that is sent, asked or made appears, and no job becomes early.    *)
LEMMA CreationKept ==
  ASSUME CreationOK, \A j \in Jobs : Early(j)' => Early(j),
         \A j \in Jobs : /\ Senders(j)' \subseteq Senders(j)
                         /\ Asked(j)' \subseteq Asked(j) /\ Made(j)' \subseteq Made(j)
  PROVE  CreationOK'
<1> SUFFICES ASSUME NEW j \in Jobs
             PROVE  /\ Early(j)' => Senders(j)' = {} /\ Asked(j)' = {} /\ Made(j)' = {}
                    /\ Senders(j)' # {} => Asked(j)' = {} /\ Made(j)' = {}
                    /\ Asked(j)' # {} => Made(j)' = {}
                    /\ OneOf(Senders(j)') /\ OneOf(Asked(j)') /\ OneOf(Made(j)')
  BY DEF CreationOK, OneOf
<1>1. /\ Early(j) => Senders(j) = {} /\ Asked(j) = {} /\ Made(j) = {}
      /\ Senders(j) # {} => Asked(j) = {} /\ Made(j) = {}
      /\ Asked(j) # {} => Made(j) = {}
      /\ OneOf(Senders(j)) /\ OneOf(Asked(j)) /\ OneOf(Made(j))
  BY DEF CreationOK
<1>2. \A S, T : S \subseteq T /\ OneOf(T) => OneOf(S)
  BY DEF OneOf
<1>3. /\ Early(j)' => Early(j)
      /\ Senders(j)' \subseteq Senders(j) /\ Asked(j)' \subseteq Asked(j)
      /\ Made(j)' \subseteq Made(j)
  OBVIOUS
<1> HIDE DEF Early, Senders, Asked, Made
<1> QED
  BY <1>1, <1>2, <1>3

(* A request that does not start to send leaves the senders as they are.     *)
Elsewhere(c) ==
    (\A d \in Callers \ {c} : caller'[d] = caller[d]) /\ caller'[c].pc # "send"

(* A request that is not about to send adds nobody to those who are.        *)
LEMMA NotSending ==
  ASSUME NEW c \in Callers, Elsewhere(c)
  PROVE  \A j \in Jobs : Senders(j)' \subseteq Senders(j)
  BY DEF Senders, Elsewhere

(* A request that moves to a step other than sending, or ends, is           *)
(* elsewhere.                                                               *)
LEMMA GoesElsewhere ==
  ASSUME TypeOK, NEW c \in Callers, NEW p, p # "send", Goto(c, p) \/ Finish(c)
  PROVE  Elsewhere(c)
<1>1. caller \in [Callers -> Works] /\ caller[c] \in Works
  BY DEF TypeOK, CallerOK
<1>2. Idle.pc = "idle" /\ [caller[c] EXCEPT !.pc = p].pc = p
  BY <1>1 DEF Works, Idle
<1> QED
  BY <1>1, <1>2 DEF Elsewhere, Goto, Finish

(* No step of an upload asks the platform for an archive.                   *)
LEMMA UploadElsewhere ==
  ASSUME TypeOK, NEW c \in Callers,
         \/ UploadPlan(c) \/ InitializeUpload(c) \/ RecordUploadToken(c) \/ UploadPart(c)
         \/ RecordPartCompleted(c) \/ UploadSmallFile(c) \/ CompleteUpload(c)
         \/ RecordVideoUploaded(c) \/ UploadFails(c)
  PROVE  Elsewhere(c) /\ UNCHANGED <<requests, archives>>
<1>1. caller \in [Callers -> Works] /\ caller[c] \in Works
  BY DEF TypeOK, CallerOK
<1>2. Continue(c, caller[c].token) # "send"
  BY DEF Continue
<1>3. CASE UploadPlan(c)
  <2>1. PICK t, p : t = (1..PartsOf[caller[c].job]) \ parts[caller[c].job]
                    /\ p = Continue(c, caller[c].token)
    OBVIOUS
  <2>2. [caller[c] EXCEPT !.todo = t, !.pc = p].pc = p
    BY <1>1 DEF Works
  <2>3. caller' = [caller EXCEPT ![c] = [caller[c] EXCEPT !.todo = t, !.pc = p]]
    BY <1>3, <2>1 DEF UploadPlan
  <2> QED
    BY <1>1, <1>2, <1>3, <2>1, <2>2, <2>3 DEF Elsewhere, UploadPlan, platform
<1>4. CASE InitializeUpload(c)
  <2>1. [caller[c] EXCEPT !.token = Len(uploads) + 1, !.pc = "token"].pc = "token"
    BY <1>1 DEF Works
  <2> QED
    BY <1>1, <1>4, <2>1 DEF Elsewhere, InitializeUpload
<1>5. CASE RecordUploadToken(c)
  BY <1>2, <1>5, GoesElsewhere DEF RecordUploadToken, platform
<1>6. CASE UploadPart(c) \/ UploadSmallFile(c) \/ CompleteUpload(c)
  BY <1>6, GoesElsewhere DEF UploadPart, UploadSmallFile, CompleteUpload, platform
<1>7. CASE RecordPartCompleted(c)
  <2>1. \A t : [caller[c] EXCEPT !.todo = t, !.pc = "part"].pc = "part"
    BY <1>1 DEF Works
  <2>2. CASE Phase(caller[c].job) = "prepared"
    <3>1. PICK t : caller' = [caller EXCEPT ![c] = [caller[c] EXCEPT !.todo = t, !.pc = "part"]]
      BY <1>1, <1>7, <2>2 DEF RecordPartCompleted
    <3> QED
      BY <1>1, <1>7, <2>1, <3>1 DEF Elsewhere, RecordPartCompleted, platform
  <2>3. CASE Phase(caller[c].job) # "prepared"
    BY <1>7, <2>3, GoesElsewhere DEF RecordPartCompleted, platform
  <2> QED
    BY <2>2, <2>3
<1>8. CASE RecordVideoUploaded(c) \/ UploadFails(c)
  BY <1>8, GoesElsewhere DEF RecordVideoUploaded, UploadFails, platform
<1> QED
  BY <1>3, <1>4, <1>5, <1>6, <1>7, <1>8

(* The creation of one job moves on, from the admission to the sender, from  *)
(* the sender to the platform or from there to the archives.                 *)
LEMMA CreationMoves ==
  ASSUME CreationOK, NEW j \in Jobs, ~Early(j)',
         \A k \in Jobs \ {j} : /\ Early(k)' => Early(k)
                               /\ Senders(k)' \subseteq Senders(k)
                               /\ Asked(k)' \subseteq Asked(k) /\ Made(k)' \subseteq Made(k),
         \/ OneOf(Senders(j)') /\ Asked(j)' = {} /\ Made(j)' = {}
         \/ Senders(j)' = {} /\ OneOf(Asked(j)') /\ Made(j)' = {}
         \/ Senders(j)' = {} /\ Asked(j)' = {} /\ OneOf(Made(j)')
  PROVE  CreationOK'
<1>1. \A S, T : S \subseteq T /\ OneOf(T) => OneOf(S)
  BY DEF OneOf
<1>2. OneOf({})
  BY DEF OneOf
<1>3. ASSUME NEW k \in Jobs
      PROVE  /\ Early(k)' => Senders(k)' = {} /\ Asked(k)' = {} /\ Made(k)' = {}
             /\ Senders(k)' # {} => Asked(k)' = {} /\ Made(k)' = {}
             /\ Asked(k)' # {} => Made(k)' = {}
             /\ OneOf(Senders(k)') /\ OneOf(Asked(k)') /\ OneOf(Made(k)')
  <2>1. CASE k = j
    BY <1>2, <2>1
  <2>2. CASE k # j
    <3>1. /\ Early(k) => Senders(k) = {} /\ Asked(k) = {} /\ Made(k) = {}
          /\ Senders(k) # {} => Asked(k) = {} /\ Made(k) = {}
          /\ Asked(k) # {} => Made(k) = {}
          /\ OneOf(Senders(k)) /\ OneOf(Asked(k)) /\ OneOf(Made(k))
      BY DEF CreationOK
    <3> QED
      BY <1>1, <2>2, <3>1
  <2> QED
    BY <2>1, <2>2
<1> QED
  BY <1>3 DEF CreationOK, OneOf

(* An upload leaves the creation where it is.                               *)
LEMMA CreationUpload ==
  ASSUME TypeOK, CreationOK, NEW c \in Callers,
         \/ UploadPlan(c) \/ InitializeUpload(c) \/ RecordUploadToken(c) \/ UploadPart(c)
         \/ RecordPartCompleted(c) \/ UploadSmallFile(c) \/ CompleteUpload(c)
         \/ RecordVideoUploaded(c) \/ UploadFails(c)
  PROVE  CreationOK'
<1> DEFINE j == caller[c].job
<1>1. Elsewhere(c) /\ UNCHANGED <<requests, archives>>
  BY UploadElsewhere
<1>2. ASSUME NEW k \in Jobs PROVE Early(k)' => Early(k)
  <2>1. CASE attempt' = attempt
    BY <2>1 DEF Early, Phase
  <2>2. CASE j \in Jobs /\ Phase(j) = "prepared"
    <3>1. attempt'[k] = attempt[k] \/ k = j
      BY <2>2 DEF TypeOK, UploadPlan, InitializeUpload, RecordUploadToken, UploadPart, durable,
         RecordPartCompleted, UploadSmallFile, CompleteUpload, RecordVideoUploaded, UploadFails
    <3> QED
      BY <2>2, <3>1 DEF Early, Phase
  <2>3. CASE attempt' # attempt
    <3>1. RecordUploadToken(c) \/ RecordVideoUploaded(c)
      BY <2>3 DEF UploadPlan, InitializeUpload, UploadPart, durable, RecordPartCompleted,
         UploadSmallFile, CompleteUpload, UploadFails
    <3>2. Phase(j) = "prepared" /\ j \in Jobs
      BY <2>3, <3>1 DEF RecordUploadToken, RecordVideoUploaded, TypeOK, CallerOK
    <3> QED
      BY <2>2, <3>2
  <2> QED
    BY <2>1, <2>3
<1> QED
  BY <1>1, <1>2, NotSending, CreationKept DEF Asked, Made

(* Beginning an upload or a submission admits no creation.                  *)
LEMMA CreationCalls ==
  ASSUME TypeOK, CreationOK, NEW c \in Callers, NEW s \in sessions,
         UploadBegin(c, s) \/ SubmitBegin(c, s)
  PROVE  CreationOK'
<1>1. caller \in [Callers -> Works]
  BY DEF TypeOK, CallerOK
<1>2. Elsewhere(c)
  <2>1. PICK n : /\ n # "send"
                 /\ caller' = [caller EXCEPT ![c] = [Idle EXCEPT !.pc = n, !.job = s.job,
                                !.session = s.token, !.token = attempt[s.job].token]]
    BY DEF UploadBegin, SubmitBegin
  <2>2. [Idle EXCEPT !.pc = n, !.job = s.job, !.session = s.token,
                     !.token = attempt[s.job].token].pc = n
    BY DEF Idle
  <2> QED
    BY <1>1, <2>1, <2>2 DEF Elsewhere
<1>3. UNCHANGED <<requests, archives, attempt>>
  BY DEF UploadBegin, SubmitBegin, durable, platform
<1> QED
  BY <1>2, <1>3, NotSending, CreationKept DEF Asked, Made, Early, Phase

(* The single admission is where a creation begins, and the request is sent  *)
(* where it was admitted.                                                    *)
LEMMA CreationSubmit ==
  ASSUME TypeOK, CreationOK, NEW c \in Callers,
         \/ BeginArchiveCreation(c) \/ TokenUnavailable(c) \/ SendArchiveAdd(c)
         \/ ReceiveAnswer(c) \/ AnswerLost(c) \/ SettleCreation(c) \/ Conclude(c)
         \/ RetireSession(c)
  PROVE  CreationOK'
<1> USE Nothing
<1>0. PICK j : j = caller[c].job
  OBVIOUS
<1>1. /\ caller \in [Callers -> Works] /\ caller[c] \in Works
      /\ caller[c].pc # "idle" => j \in Jobs
      /\ attempt \in [Jobs -> Attempts \cup {None}]
  BY <1>0 DEF TypeOK, CallerOK
<1>2. CASE TokenUnavailable(c) \/ Conclude(c) \/ RetireSession(c)
  BY <1>2, GoesElsewhere, NotSending, CreationKept
     DEF TokenUnavailable, Conclude, RetireSession, durable, platform, Asked, Made, Early, Phase
<1>3. CASE ReceiveAnswer(c) \/ AnswerLost(c)
  <2>1. \A a : [caller[c] EXCEPT !.answer = a, !.pc = "settle"].pc = "settle"
    BY <1>1 DEF Works
  <2>2. PICK a : caller' = [caller EXCEPT ![c] = [caller[c] EXCEPT !.answer = a, !.pc = "settle"]]
    BY <1>0, <1>1, <1>3 DEF ReceiveAnswer, AnswerLost
  <2>3. Elsewhere(c)
    BY <1>0, <1>1, <2>1, <2>2 DEF Elsewhere
  <2> QED
    BY <1>3, <2>3, NotSending, CreationKept
       DEF ReceiveAnswer, AnswerLost, durable, platform, Asked, Made, Early, Phase
<1>4. CASE SettleCreation(c)
  <2>1. Elsewhere(c)
    BY <1>0, <1>4, GoesElsewhere DEF SettleCreation
  <2>2. j \in Jobs /\ caller[c].answer \in Answers
    BY <1>0, <1>1, <1>4 DEF SettleCreation, TypeOK, CallerOK, Works
  <2>3. ASSUME NEW k \in Jobs PROVE Early(k)' => Early(k)
    <3>1. CASE Phase(j) = "dispatched"
      <4>1. attempt' = SettlePhase(j, caller[c].answer)
        BY <1>0, <1>4, <3>1 DEF SettleCreation
      <4>2. /\ attempt'[j] # None
            /\ attempt'[j].phase \in {"outcome_uncertain", "failed", "submitted"}
            /\ k # j => attempt'[k] = attempt[k]
        BY <2>2, <3>1, <4>1, Settling
      <4> QED
        BY <4>2 DEF Early, Phase, Phases
    <3>2. CASE Phase(j) # "dispatched"
      BY <1>0, <1>4, <3>2 DEF SettleCreation, Early, Phase
    <3> QED
      BY <3>1, <3>2
  <2> QED
    BY <1>0, <1>4, <2>1, <2>3, NotSending, CreationKept DEF SettleCreation, platform, Asked, Made
<1>5. CASE BeginArchiveCreation(c)
  <2>1. j \in Jobs
    BY <1>0, <1>1, <1>5 DEF BeginArchiveCreation
  <2>2. CASE Admitted(j)
    <3>1. attempt[j] \in Attempts
      BY <1>0, <1>1, <2>1, <2>2, Parts DEF Admitted, Phase, Phases
    <3>2. attempt' = [attempt EXCEPT ![j].phase = "dispatched"] /\ Goto(c, "send")
      BY <1>0, <1>5, <2>2 DEF BeginArchiveCreation
    <3>3. PICK r \in Attempts : attempt' = [attempt EXCEPT ![j] = r] /\ r.phase = "dispatched"
      <4>1. /\ [attempt[j] EXCEPT !.phase = "dispatched"] \in Attempts
            /\ [attempt[j] EXCEPT !.phase = "dispatched"].phase = "dispatched"
        BY <3>1 DEF Attempts, Phases
      <4> QED
        BY <3>2, <4>1
    <3>4. ~Early(j)' /\ \A k \in Jobs \ {j} : Early(k)' => Early(k)
      BY <1>0, <1>1, <2>1, <3>3 DEF Early, Phase, Phases
    <3>5. Senders(j) = {} /\ Asked(j) = {} /\ Made(j) = {}
      BY <2>1, <2>2 DEF CreationOK, Early, Admitted
    <3>6. [caller[c] EXCEPT !.pc = "send"].job = j
      BY <1>0, <1>1 DEF Works
    <3>7. Senders(j)' \subseteq {c} /\ \A k \in Jobs \ {j} : Senders(k)' \subseteq Senders(k)
      BY <1>0, <1>1, <3>2, <3>5, <3>6 DEF Goto, Senders
    <3>8. \A k \in Jobs : Asked(k)' = Asked(k) /\ Made(k)' = Made(k)
      BY <1>0, <1>5 DEF BeginArchiveCreation, platform, Asked, Made
    <3>9. OneOf(Senders(j)') /\ Asked(j)' = {} /\ Made(j)' = {}
      BY <2>1, <3>5, <3>7, <3>8 DEF OneOf
    <3> QED
      BY <2>1, <3>4, <3>7, <3>8, <3>9, CreationMoves
  <2>3. CASE ~Admitted(j)
    <3>1. Elsewhere(c)
      BY <1>0, <1>5, <2>3, GoesElsewhere DEF BeginArchiveCreation
    <3> QED
      BY <1>0, <1>5, <2>3, <3>1, NotSending, CreationKept
         DEF BeginArchiveCreation, platform, Asked, Made, Early, Phase
  <2> QED
    BY <2>2, <2>3
<1>6. CASE SendArchiveAdd(c)
  <2> DEFINE r == [job |-> j, token |-> caller[c].token]
  <2>1. j \in Jobs /\ c \in Senders(j) /\ UNCHANGED attempt
    BY <1>0, <1>1, <1>6 DEF SendArchiveAdd, Senders, durable
  <2>2. Asked(j) = {} /\ Made(j) = {} /\ Senders(j) = {c} /\ ~Early(j)
    BY <1>0, <2>1 DEF CreationOK, OneOf
  <2>3. Elsewhere(c)
    BY <1>0, <1>6, GoesElsewhere DEF SendArchiveAdd
  <2>4. \A k \in Jobs : Senders(k)' \subseteq Senders(k)
    BY <2>3, NotSending
  <2>5. c \notin Senders(j)'
    BY <2>3 DEF Elsewhere, Senders
  <2>6. Senders(j)' = {}
    BY <2>1, <2>2, <2>4, <2>5
  <2>7. Asked(j)' \subseteq {r} /\ \A k \in Jobs \ {j} : Asked(k)' \subseteq Asked(k)
    BY <1>0, <1>6, <2>2 DEF SendArchiveAdd, Asked
  <2>8. \A k \in Jobs : Made(k)' = Made(k) /\ (Early(k)' => Early(k))
    BY <1>0, <1>6, <2>1 DEF SendArchiveAdd, Made, Early, Phase
  <2>9. ~Early(j)'
    BY <2>1, <2>2 DEF Early, Phase
  <2>10. OneOf(Asked(j)') /\ Made(j)' = {}
    BY <2>1, <2>2, <2>7, <2>8 DEF OneOf
  <2> QED
    BY <2>1, <2>4, <2>6, <2>7, <2>8, <2>9, <2>10, CreationMoves
<1> QED
  BY <1>2, <1>3, <1>4, <1>5, <1>6

(* Carrying a request out moves the creation to the archives.                *)
LEMMA CreationPlatform ==
  ASSUME TypeOK, CreationOK, Platform
  PROVE  CreationOK'
<1>1. ASSUME NEW r \in requests, CarryOut(r)
      PROVE  CreationOK'
  <2> DEFINE a == Archive(Len(archives) + 1, attempt[r.job].content.title, r.job, r.token, TRUE)
             len == Len(archives)
  <2>1. r.job \in Jobs /\ archives \in Seq(Archives) /\ len \in Nat
    BY DEF TypeOK
  <2>2. archives' = <<a>> \o archives
    BY <1>1 DEF CarryOut
  <2>3. a.job = r.job
    BY DEF Archive
  <2> HIDE DEF a
  <2>4. /\ Len(archives') = len + 1 /\ archives'[1] = a
        /\ \A n \in 1..len : archives'[n + 1] = archives[n]
    BY <2>1, <2>2
  <2>5. /\ archives'[len' + 1 - (len + 1)] = a
        /\ \A n \in 1..len : archives'[len' + 1 - n] = archives[len + 1 - n]
    <3>1. len' + 1 - (len + 1) = 1
      BY <2>1, <2>4
    <3>2. ASSUME NEW n \in 1..len PROVE archives'[len' + 1 - n] = archives[len + 1 - n]
      <4>1. len + 1 - n \in 1..len /\ len' + 1 - n = (len + 1 - n) + 1
        BY <2>1, <2>4
      <4> QED
        BY <2>4, <4>1
    <3> QED
      BY <2>4, <3>1, <3>2
  <2>6. r \in Asked(r.job)
    BY DEF Asked
  <2>7. Senders(r.job) = {} /\ Asked(r.job) = {r} /\ Made(r.job) = {} /\ ~Early(r.job)
    BY <2>1, <2>6 DEF CreationOK, OneOf
  <2>8. UNCHANGED <<caller, attempt>> /\ requests' = requests \ {r}
    BY <1>1 DEF CarryOut, durable, runtime
  <2>9. \A k \in Jobs : Senders(k)' = Senders(k) /\ (Early(k)' => Early(k))
    BY <2>8 DEF Senders, Early, Phase
  <2>10. \A k \in Jobs : Asked(k)' = Asked(k) \ {r}
    BY <2>8 DEF Asked
  <2>11. \A k \in Jobs : Made(k)' \subseteq Made(k) \cup (IF k = r.job THEN {len + 1} ELSE {})
    <3>1. 1..Len(archives') = 1..len \cup {len + 1}
      BY <2>1, <2>4
    <3> QED
      BY <2>3, <2>5, <3>1 DEF Made
  <2>12. PICK j \in Jobs : j = r.job
    BY <2>1
  <2>13. ~Early(j)' /\ Senders(j)' = {} /\ Asked(j)' = {} /\ OneOf(Made(j)')
    BY <2>7, <2>8, <2>9, <2>10, <2>11, <2>12 DEF OneOf, Early, Phase
  <2>14. \A k \in Jobs \ {j} : /\ Early(k)' => Early(k)
                               /\ Senders(k)' \subseteq Senders(k)
                               /\ Asked(k)' \subseteq Asked(k) /\ Made(k)' \subseteq Made(k)
    BY <2>9, <2>10, <2>11, <2>12
  <2> QED
    BY <2>13, <2>14, CreationMoves
<1>2. ASSUME NEW r \in requests, Refuse(r)
      PROVE  CreationOK'
  BY <1>2, CreationKept DEF Refuse, durable, runtime, Senders, Asked, Made, Early, Phase
<1>3. ASSUME NEW n \in 1..Len(archives), Review(n)
      PROVE  CreationOK'
  <2>1. PICK v : archives' = [archives EXCEPT ![n].state = v]
    BY <1>3 DEF Review
  <2>2. archives \in Seq(Archives)
    BY DEF TypeOK
  <2>3. \A m \in 1..Len(archives) : archives'[m].job = archives[m].job
    <3>1. [archives[n] EXCEPT !.state = v].job = archives[n].job
      BY <2>2 DEF Archives
    <3> QED
      BY <2>1, <2>2, <3>1
  <2>4. Len(archives') = Len(archives) /\ Len(archives) \in Nat
    BY <2>1, <2>2
  <2>5. \A j \in Jobs : Made(j)' \subseteq Made(j)
    <3>1. \A m \in 1..Len(archives) : Len(archives) + 1 - m \in 1..Len(archives)
      BY <2>4
    <3> QED
      BY <2>3, <2>4, <3>1 DEF Made
  <2> QED
    BY <1>3, <2>5, CreationKept DEF Review, durable, runtime, Senders, Asked, Early, Phase
<1> QED
  BY <1>1, <1>2, <1>3 DEF Platform

(* No path of the reconciliation sends a creation again: it fences and      *)
(* reads.                                                                   *)
LEMMA CreationReconciliation ==
  ASSUME TypeOK, CreationOK, Reconciliation
  PROVE  CreationOK'
<1>1. UNCHANGED <<caller, requests, archives>>
  <2>1. CASE RecoverFence \/ ReconcileFence
    BY <2>1 DEF RecoverFence, ReconcileFence, runtime, platform
  <2> QED
    BY <2>1, ReconciliationReads DEF runtime, platform
<1>2. ASSUME NEW k \in Jobs PROVE Early(k)' => Early(k)
  <2>1. CASE attempt' = attempt
    BY <2>1 DEF Early, Phase
  <2>2. ASSUME NEW j, Phase(j) = "dispatched", attempt' = Fenced(j)
        PROVE  Early(k)' => Early(k)
    <3>1. k # j => attempt'[k] = attempt[k]
      BY <2>2, Fencing
    <3>2. k = j => ~Early(k)
      BY <2>2, Nothing DEF Early, Phases
    <3>3. k = j => attempt'[k] \in Attempts /\ attempt'[k].phase = "outcome_uncertain"
      BY <2>2, Fencing
    <3> QED
      BY <3>1, <3>3, Nothing DEF Early, Phase, Phases
  <2> QED
    BY <2>1, <2>2, ReconciliationReads DEF RecoverFence, ReconcileFence
<1> QED
  BY <1>1, <1>2, CreationKept DEF Senders, Asked, Made

(* Preparing again, closing a session, a cover and a kill create nothing.   *)
LEMMA CreationRest ==
  ASSUME TypeOK, CreationOK,
         \/ \E i \in Installations, j \in Jobs : \E ct \in ContentsOf[j] : Prepare(i, j, ct)
         \/ \E s \in sessions : CloseSession(s)
         \/ \E j \in Jobs : UploadCover(j)
         \/ Kill
  PROVE  CreationOK'
<1>1. ASSUME NEW i \in Installations, NEW j \in Jobs, NEW ct \in ContentsOf[j], Prepare(i, j, ct)
      PROVE  CreationOK'
  <2>1. \A k \in Jobs : attempt'[k] = attempt[k] \/ attempt[k] = None
    BY <1>1 DEF Prepare, TypeOK
  <2> QED
    BY <1>1, <2>1, CreationKept DEF Prepare, platform, Senders, Asked, Made, Early, Phase
<1>2. ASSUME NEW s \in sessions, CloseSession(s)
      PROVE  CreationOK'
  BY <1>2, CreationKept DEF CloseSession, durable, platform, Senders, Asked, Made, Early, Phase
<1>3. ASSUME NEW j \in Jobs, UploadCover(j)
      PROVE  CreationOK'
  <2>1. Early(j)
    BY <1>3 DEF UploadCover, Early
  <2>2. \A k \in Jobs : attempt'[k] = attempt[k] \/ Early(k)
    BY <1>3, <2>1 DEF UploadCover, TypeOK
  <2> QED
    BY <1>3, <2>2, CreationKept
       DEF UploadCover, runtime, platform, Senders, Asked, Made, Early, Phase
<1>4. CASE Kill
  <2>1. \A j \in Jobs : Senders(j)' = {}
    BY <1>4 DEF Kill, Senders, Idle
  <2> QED
    BY <1>4, <2>1, CreationKept DEF Kill, durable, platform, Asked, Made, Early, Phase
<1> QED
  BY <1>1, <1>2, <1>3, <1>4

(* Every step keeps a job's creation in one place.                          *)
LEMMA OnceNext == OnceInv /\ [Next]_vars => OnceInv'
<1> SUFFICES ASSUME TypeOK, CreationOK, [Next]_vars
             PROVE  TypeOK' /\ CreationOK'
  BY DEF OnceInv
<1>1. CASE UNCHANGED vars
  <2>1. TypeOK'
    BY <1>1 DEF TypeOK, CallerOK, vars, durable, runtime, platform
  <2>2. CreationOK'
    BY <1>1, CreationKept
       DEF vars, durable, runtime, platform, Senders, Asked, Made, Early, Phase
  <2> QED
    BY <2>1, <2>2
<1>2. CASE Publishing
  BY <1>2, TypeRest, TypeCalls, TypeUpload, TypeSubmit, CreationRest, CreationCalls,
     CreationUpload, CreationSubmit DEF Publishing
<1>3. CASE Platform
  BY <1>3, TypePlatform, CreationPlatform
<1>4. CASE Reconciliation
  BY <1>4, TypeReconciliation, CreationReconciliation
<1>5. CASE Kill
  BY <1>5, TypeRest, CreationRest
<1> QED
  BY <1>1, <1>2, <1>3, <1>4, <1>5 DEF Next

(* A job's creation is in one place, in every reachable state.               *)
THEOREM Invariance == Spec => []OnceInv
<1>1. Init => OnceInv
  <2>1. Init => CreationOK
    <3> SUFFICES ASSUME Init, NEW j \in Jobs
                 PROVE  Senders(j) = {} /\ Asked(j) = {} /\ Made(j) = {}
      BY DEF CreationOK, OneOf
    <3>1. Senders(j) = {} /\ Asked(j) = {}
      BY DEF Init, Senders, Asked, Idle
    <3>2. \A n \in 1..Len(archives) : archives[n].job = None
      <4>1. Len(OldTitles) \in Nat
        BY BilibiliAssumption
      <4> QED
        BY <4>1 DEF Init, Archive
    <3>3. Len(archives) \in Nat
      BY TypeInit DEF TypeOK
    <3>4. \A n \in 1..Len(archives) : Len(archives) + 1 - n \in 1..Len(archives)
      BY <3>3
    <3> QED
      BY <3>1, <3>2, <3>4, Nothing DEF Made
  <2> QED
    BY <2>1, TypeInit DEF OnceInv
<1> QED
  BY <1>1, OnceNext, PTL DEF Spec

(* A job's video is created at most once, whatever requests are repeated or  *)
(* overlap, whatever is lost and wherever the process is killed              *)
(* (begin_archive_creation admits a creation once).                          *)
THEOREM CreatedOnce == Spec => []ArchivedOnce
<1>1. OnceInv => ArchivedOnce
  <2> SUFFICES ASSUME OnceInv, NEW m \in 1..Len(archives), NEW n \in 1..Len(archives),
                      archives[m].job # None, archives[m].job = archives[n].job
               PROVE  m = n
    BY DEF ArchivedOnce
  <2> DEFINE len == Len(archives)
  <2>1. archives \in Seq(Archives) /\ len \in Nat
    BY DEF OnceInv, TypeOK
  <2>2. archives[m].job \in Jobs
    <3>1. archives[m] \in Archives
      BY <2>1
    <3> QED
      BY <3>1 DEF Archives
  <2>3. /\ len + 1 - m \in 1..len /\ len + 1 - (len + 1 - m) = m
        /\ len + 1 - n \in 1..len /\ len + 1 - (len + 1 - n) = n
    BY <2>1
  <2>4. len + 1 - m \in Made(archives[m].job) /\ len + 1 - n \in Made(archives[m].job)
    BY <2>3 DEF Made
  <2>5. len + 1 - m = len + 1 - n
    BY <2>2, <2>4 DEF OnceInv, CreationOK, OneOf
  <2> QED
    BY <2>1, <2>5
<1> QED
  BY <1>1, Invariance, PTL

-----------------------------------------------------------------------------
(* Whole uploads *)

(* A step that neither uploads nor changes what an upload is about: an       *)
(* attempt appears, or one past its upload settles.                          *)
Steady(j) ==
    /\ Token(j)' = Token(j)
    /\ \/ Phase(j)' = Phase(j)
       \/ Past(j) /\ Past(j)'
       \/ Phase(j) = None /\ Phase(j)' = "prepared"

(* A request that goes on as it was, leaves, or submits what is uploaded.    *)
Follows(c) ==
    \/ caller'[c] = caller[c]
    \/ caller'[c].pc \notin UploadSteps \cup SubmitSteps
    \/ /\ caller'[c].pc \in SubmitSteps
       /\ Past(caller'[c].job) /\ caller'[c].token = Token(caller'[c].job)

(* When nothing is transferred or recorded, the uploads stay what they      *)
(* are.                                                                     *)
LEMMA WholeSteady ==
  ASSUME TypeOK, TypeOK', WholeOK, UNCHANGED <<parts, uploads>>,
         \A j \in Jobs : Steady(j), \A c \in Callers : Follows(c),
         \A r \in requests' : Past(r.job) /\ r.token = Token(r.job),
         \A n \in 1..Len(archives') : archives'[n].job # None =>
            Past(archives'[n].job) /\ archives'[n].token = Token(archives'[n].job)
  PROVE  WholeOK'
<1> USE Nothing
<1>1. \A j \in Jobs : UploadOK(j)'
  <2> SUFFICES ASSUME NEW j \in Jobs PROVE UploadOK(j)'
    OBVIOUS
  <2>1. UploadOK(j) /\ Steady(j) /\ \A k \in Jobs : Token(k)' = Token(k)
    BY DEF WholeOK, Steady
  <2> QED
    BY <2>1 DEF UploadOK, Steady, Past, Phases
<1>2. \A c \in Callers : Uploads(c)' => caller'[c] = caller[c] /\ Uploads(c)
  BY DEF Uploads, Follows, UploadSteps, SubmitSteps
<1>3. \A j \in Jobs : Phase(j) = "prepared" => Phase(j)' = "prepared"
  BY DEF Steady, Past, Phases
<1>4. \A j \in Jobs : Token(j)' = Token(j) /\ (Past(j) => Past(j)')
  BY <1>1 DEF Steady, Past, Phases
<1>5. \A c \in Callers : Uploads(c)' => UploaderOK(c)'
  <2> SUFFICES ASSUME NEW c \in Callers, Uploads(c)' PROVE UploaderOK(c)'
    OBVIOUS
  <2>1. caller'[c] = caller[c] /\ UploaderOK(c) /\ caller[c].job \in Jobs
    BY <1>2 DEF WholeOK, TypeOK, CallerOK, Uploads, UploadSteps
  <2> QED
    BY <1>3, <1>4, <2>1 DEF UploaderOK, NextPart
<1>6. \A c, d \in Callers : Uploads(c)' /\ Uploads(d)' /\ caller'[c].job = caller'[d].job => c = d
  BY <1>2 DEF WholeOK
<1>7. \A c \in Callers : (caller[c].pc = "token")' => FreshOK(c)'
  <2>1. \A c \in Callers : (caller[c].pc = "token")' => caller'[c] = caller[c]
    BY <1>2 DEF Uploads, UploadSteps
  <2> QED
    BY <1>4, <2>1 DEF WholeOK, FreshOK
<1>8. \A c \in Callers : (caller[c].pc \in SubmitSteps)' =>
          (Past(caller[c].job) /\ caller[c].token = Token(caller[c].job))'
  <2> SUFFICES ASSUME NEW c \in Callers, caller'[c].pc \in SubmitSteps
               PROVE  (Past(caller[c].job) /\ caller[c].token = Token(caller[c].job))'
    OBVIOUS
  <2>1. caller'[c].job \in Jobs
    BY DEF TypeOK, CallerOK, SubmitSteps
  <2>2. PICK j \in Jobs : j = caller'[c].job
    BY <2>1
  <2>3. Past(j) /\ caller'[c].token = Token(j)
    BY <2>2 DEF Follows, WholeOK, SubmitSteps
  <2>4. Past(j)' /\ caller'[c].token = Token(j)'
    BY <1>4, <2>3
  <2> QED
    BY <2>2, <2>4 DEF Past, Phase, Token
<1>9. \A r \in requests' : (Past(r.job) /\ r.token = Token(r.job))'
  BY <1>4 DEF TypeOK
<1>10. \A n \in 1..Len(archives') : archives'[n].job # None =>
          (Past(archives[n].job) /\ archives[n].token = Token(archives[n].job))'
  <2> SUFFICES ASSUME NEW n \in 1..Len(archives'), archives'[n].job # None
               PROVE  (Past(archives[n].job) /\ archives[n].token = Token(archives[n].job))'
    OBVIOUS
  <2>1. archives'[n] \in Archives
    BY DEF TypeOK
  <2>2. PICK j \in Jobs : j = archives'[n].job
    BY <2>1 DEF Archives
  <2>3. Past(j)' /\ archives'[n].token = Token(j)'
    BY <1>4, <2>2
  <2> QED
    BY <2>2, <2>3 DEF Past, Phase, Token
<1> QED
  BY <1>1, <1>5, <1>6, <1>7, <1>8, <1>9, <1>10 DEF WholeOK

(* The one upload of a job moves: the other jobs and requests keep what they *)
(* know.                                                                     *)
LEMMA WholeMoves ==
  ASSUME TypeOK, TypeOK', WholeOK, NEW c \in Callers, NEW j \in Jobs,
         Phase(j) = "prepared",
         \A d \in Callers \ {c} : caller'[d] = caller[d],
         \A d \in Callers \ {c} : Uploads(d) => caller[d].job # j,
         \A k \in Jobs \ {j} : attempt'[k] = attempt[k] /\ parts'[k] = parts[k],
         Len(uploads) <= Len(uploads'),
         \A t \in 1..Len(uploads) : uploads'[t] = uploads[t] \/ t = Token(j),
         UNCHANGED <<requests, archives>>,
         Token(j)' # Token(j) => caller[c].pc = "token" /\ Token(j)' = caller[c].token,
         UploadOK(j)', caller'[c].pc \notin SubmitSteps,
         Uploads(c)' => caller'[c].job = j /\ UploaderOK(c)',
         (caller[c].pc = "token")' => FreshOK(c)'
  PROVE  WholeOK'
<1> USE Nothing
<1>1. /\ \A k \in Jobs \ {j} : Phase(k)' = Phase(k) /\ Token(k)' = Token(k)
      /\ \A k \in Jobs : Past(k) => k # j /\ Past(k)'
  BY DEF Phase, Token, Past
<1>2. Len(uploads) \in Nat /\ Len(uploads') \in Nat
  BY DEF TypeOK
<1>3. ASSUME NEW k \in Jobs \ {j}, Token(k) # None
      PROVE  /\ Token(k) \in 1..Len(uploads') /\ uploads'[Token(k)] = uploads[Token(k)]
             /\ Token(j)' # Token(k)
  <2>1. Token(k) \in 1..Len(uploads) /\ Token(j) # Token(k)
    BY <1>3 DEF WholeOK, UploadOK
  <2>2. Token(j)' # Token(k)
    BY <1>1, <1>3 DEF UploadOK
  <2> QED
    BY <1>2, <2>1, <2>2
<1>4. \A k \in Jobs : UploadOK(k)'
  <2> SUFFICES ASSUME NEW k \in Jobs, k # j PROVE UploadOK(k)'
    OBVIOUS
  <2>1. UploadOK(k) /\ Phase(k)' = Phase(k) /\ Token(k)' = Token(k) /\ parts'[k] = parts[k]
    BY <1>1 DEF WholeOK
  <2>2. ASSUME Token(k) # None, NEW l \in Jobs, Token(l)' = Token(k) PROVE l = k
    BY <1>1, <1>3, <2>1, <2>2 DEF UploadOK
  <2> QED
    BY <1>3, <2>1, <2>2 DEF UploadOK
<1>5. \A d \in Callers : Uploads(d)' => UploaderOK(d)'
  <2> SUFFICES ASSUME NEW d \in Callers \ {c}, Uploads(d)' PROVE UploaderOK(d)'
    OBVIOUS
  <2>1. caller'[d] = caller[d] /\ Uploads(d) /\ UploaderOK(d)
    BY DEF Uploads, WholeOK
  <2>2. PICK k \in Jobs \ {j} : k = caller[d].job
    BY <2>1 DEF TypeOK, CallerOK, Uploads, UploadSteps
  <2>3. Phase(k)' = Phase(k) /\ Token(k)' = Token(k) /\ parts'[k] = parts[k]
    BY <1>1
  <2>4. caller[d].pc \in {"record", "uploaded"} => uploads'[caller[d].token] = uploads[caller[d].token]
    BY <1>3, <2>1, <2>2 DEF UploaderOK
  <2>5. NextPart(d)' = NextPart(d)
    BY <2>1 DEF NextPart
  <2> QED
    BY <2>1, <2>2, <2>3, <2>4, <2>5 DEF UploaderOK, Phase, Token
<1>6. \A d, e \in Callers : Uploads(d)' /\ Uploads(e)' /\ caller'[d].job = caller'[e].job => d = e
  <2>1. \A d \in Callers \ {c} : Uploads(d)' => Uploads(d) /\ caller'[d] = caller[d]
    BY DEF Uploads
  <2> QED
    BY <2>1 DEF WholeOK
<1>7. \A d \in Callers : (caller[d].pc = "token")' => FreshOK(d)'
  <2> SUFFICES ASSUME NEW d \in Callers \ {c}, caller'[d].pc = "token" PROVE FreshOK(d)'
    OBVIOUS
  <2>1. caller'[d] = caller[d] /\ FreshOK(d) /\ caller[d].pc = "token"
    BY DEF WholeOK
  <2>2. caller[d].token \in 1..Len(uploads') /\ uploads'[caller[d].token] = {}
    BY <1>2, <2>1 DEF FreshOK
  <2>3. \A k \in Jobs : Token(k)' # caller[d].token
    BY <1>1, <2>1 DEF FreshOK
  <2>4. ASSUME NEW e \in Callers, caller'[e].pc = "token", caller'[e].token = caller[d].token
        PROVE  e = d
    <3>1. CASE e = c
      BY <2>1, <2>4, <3>1 DEF FreshOK
    <3>2. CASE e # c
      BY <2>1, <2>4, <3>2 DEF FreshOK
    <3> QED
      BY <3>1, <3>2
  <2> QED
    BY <2>1, <2>2, <2>3, <2>4 DEF FreshOK
<1>8. \A d \in Callers : (caller[d].pc \in SubmitSteps)' =>
          (Past(caller[d].job) /\ caller[d].token = Token(caller[d].job))'
  <2> SUFFICES ASSUME NEW d \in Callers \ {c}, caller'[d].pc \in SubmitSteps
               PROVE  (Past(caller[d].job) /\ caller[d].token = Token(caller[d].job))'
    OBVIOUS
  <2>1. caller'[d] = caller[d] /\ caller[d].job \in Jobs
    BY DEF TypeOK, CallerOK, SubmitSteps
  <2>2. PICK k \in Jobs : k = caller'[d].job
    BY <2>1
  <2>3. Past(k) /\ caller'[d].token = Token(k)
    BY <2>1, <2>2 DEF WholeOK
  <2>4. Past(k)' /\ caller'[d].token = Token(k)'
    BY <1>1, <2>3
  <2> QED
    BY <2>2, <2>4 DEF Past, Phase, Token
<1>9. \A r \in requests' : (Past(r.job) /\ r.token = Token(r.job))'
  BY <1>1 DEF TypeOK, WholeOK
<1>10. \A n \in 1..Len(archives') : archives'[n].job # None =>
          (Past(archives[n].job) /\ archives[n].token = Token(archives[n].job))'
  <2> SUFFICES ASSUME NEW n \in 1..Len(archives'), archives'[n].job # None
               PROVE  (Past(archives[n].job) /\ archives[n].token = Token(archives[n].job))'
    OBVIOUS
  <2>1. archives'[n] \in Archives /\ archives' = archives
    BY DEF TypeOK
  <2>2. PICK k \in Jobs : k = archives'[n].job
    BY <2>1 DEF Archives
  <2>3. Past(k) /\ archives'[n].token = Token(k)
    BY <2>1, <2>2 DEF WholeOK
  <2>4. Past(k)' /\ archives'[n].token = Token(k)'
    BY <1>1, <2>3
  <2> QED
    BY <2>2, <2>4 DEF Past, Phase, Token
<1> QED
  BY <1>4, <1>5, <1>6, <1>7, <1>8, <1>9, <1>10 DEF WholeOK

(* What the running upload of a job knows.                                   *)
LEMMA Running ==
  ASSUME TypeOK, WholeOK, NEW c \in Callers, Uploads(c)
  PROVE  /\ caller[c].job \in Jobs /\ UploaderOK(c) /\ UploadOK(caller[c].job)
         /\ caller[c] \in Works /\ caller \in [Callers -> Works]
         /\ PartsOf[caller[c].job] \in Nat /\ attempt[caller[c].job] \in Attempts
         /\ \A d \in Callers \ {c} : Uploads(d) => caller[d].job # caller[c].job
<1>1. caller[c].job \in Jobs /\ caller[c] \in Works /\ caller \in [Callers -> Works]
  BY DEF TypeOK, CallerOK, Uploads, UploadSteps
<1>2. UploaderOK(c) /\ UploadOK(caller[c].job)
  BY <1>1 DEF WholeOK
<1>3. attempt[caller[c].job] \in Attempts
  BY <1>1, <1>2, Nothing, Parts DEF UploaderOK, Phase, Phases
<1>4. PartsOf[caller[c].job] \in Nat
  BY <1>1, BilibiliAssumption
<1>5. \A d \in Callers \ {c} : Uploads(d) => caller[d].job # caller[c].job
  BY DEF WholeOK
<1> QED
  BY <1>1, <1>2, <1>3, <1>4, <1>5

(* With one upload of a job at a time, an upload begins where none runs.     *)
LEMMA WholeBegins ==
  ASSUME TypeOK, TypeOK', WholeOK, SerialUploads, NEW c \in Callers, NEW s \in sessions,
         UploadBegin(c, s)
  PROVE  WholeOK'
<1>1. PICK j \in Jobs : j = s.job
  BY DEF TypeOK
<1>2. Phase(j) = "prepared" /\ UNCHANGED <<attempt, parts, uploads, requests, archives>>
  BY <1>1 DEF UploadBegin, durable, platform
<1>3. \A d \in Callers : Uploads(d) => caller[d].job # j
  BY <1>1 DEF UploadBegin, Uploading, Uploads, UploadSteps
<1>4. PICK t : t = attempt[j].token
  OBVIOUS
<1>5. t = Token(j)
  BY <1>2, <1>4, Nothing DEF Phase, Token, Phases
<1>6. /\ \A d \in Callers \ {c} : caller'[d] = caller[d]
      /\ caller'[c].pc = "plan" /\ caller'[c].job = j /\ caller'[c].token = t
  <2> DEFINE w == [Idle EXCEPT !.pc = "plan", !.job = s.job, !.session = s.token,
                               !.token = attempt[s.job].token]
  <2>1. w.pc = "plan" /\ w.job = s.job /\ w.token = attempt[s.job].token
    BY DEF Idle
  <2>2. caller' = [caller EXCEPT ![c] = w] /\ caller \in [Callers -> Works]
    BY DEF UploadBegin, TypeOK, CallerOK
  <2> HIDE DEF w
  <2> QED
    BY <1>1, <1>4, <2>1, <2>2
<1>7. Phase(j)' = Phase(j) /\ Token(j)' = Token(j)
  BY <1>2 DEF Phase, Token
<1>8. UploaderOK(c)'
  <2>1. Phase(caller[c].job)' = "prepared" /\ Token(caller[c].job)' = t
    BY <1>2, <1>5, <1>6 DEF Phase, Token
  <2> QED
    BY <1>6, <2>1 DEF UploaderOK
<1>9. UploadOK(j)'
  BY <1>2 DEF WholeOK, UploadOK, Phase, Token
<1>10. caller'[c].pc \notin SubmitSteps /\ caller'[c].pc # "token"
  BY <1>6 DEF SubmitSteps
<1>11. Len(uploads) \in Nat
  BY DEF TypeOK
<1>12. /\ Len(uploads) <= Len(uploads')
       /\ \A n \in 1..Len(uploads) : uploads'[n] = uploads[n] \/ n = Token(j)
       /\ \A k \in Jobs \ {j} : attempt'[k] = attempt[k] /\ parts'[k] = parts[k]
       /\ UNCHANGED <<requests, archives>>
  BY <1>2, <1>11
<1> QED
  BY <1>2, <1>3, <1>6, <1>7, <1>8, <1>9, <1>10, <1>12, WholeMoves

(* A step of the upload that stores nothing.                                 *)
LEMMA WholeReads ==
  ASSUME TypeOK, TypeOK', WholeOK, NEW c \in Callers,
         UploadPlan(c) \/ CompleteUpload(c) \/ UploadFails(c)
  PROVE  WholeOK'
<1>1. Uploads(c)
  BY DEF Uploads, UploadSteps, UploadPlan, CompleteUpload, UploadFails
<1>2. PICK j \in Jobs : j = caller[c].job
  BY <1>1, Running
<1>3. UploaderOK(c) /\ UploadOK(j) /\ caller[c] \in Works /\ caller \in [Callers -> Works]
      /\ PartsOf[j] \in Nat /\ \A d \in Callers \ {c} : Uploads(d) => caller[d].job # j
  BY <1>1, <1>2, Running
<1>4. UNCHANGED <<attempt, parts, uploads, requests, archives>>
  BY DEF UploadPlan, CompleteUpload, UploadFails, durable, platform
<1>5. Phase(j) = "prepared" /\ Phase(j)' = Phase(j) /\ Token(j)' = Token(j)
  BY <1>2, <1>3, <1>4 DEF UploaderOK, Phase, Token
<1>6. UploadOK(j)'
  BY <1>3, <1>4 DEF UploadOK, Phase, Token
<1>a. /\ Len(uploads) <= Len(uploads')
      /\ \A n \in 1..Len(uploads) : uploads'[n] = uploads[n] \/ n = Token(j)
      /\ \A k \in Jobs \ {j} : attempt'[k] = attempt[k] /\ parts'[k] = parts[k]
      /\ UNCHANGED <<requests, archives>>
  <2>1. Len(uploads) \in Nat
    BY DEF TypeOK
  <2> QED
    BY <2>1, <1>4
<1>7. CASE UploadPlan(c)
  <2>1. PICK t, p : t = (1..PartsOf[j]) \ parts[j] /\ p = Continue(c, caller[c].token)
    OBVIOUS
  <2>2. caller' = [caller EXCEPT ![c] = [caller[c] EXCEPT !.todo = t, !.pc = p]]
    BY <1>2, <1>7, <2>1 DEF UploadPlan
  <2>3. /\ caller'[c].pc = p /\ caller'[c].todo = t /\ caller'[c].job = j
        /\ caller'[c].token = caller[c].token /\ \A d \in Callers \ {c} : caller'[d] = caller[d]
    BY <1>2, <1>3, <2>2 DEF Works
  <2>4. caller[c].token = Token(j)
    BY <1>2, <1>3, <1>7 DEF UploaderOK, UploadPlan
  <2>5. /\ Token(j) = None => p = "init"
        /\ Token(j) # None /\ PartsOf[j] = 0 => p = "small"
        /\ Token(j) # None /\ PartsOf[j] # 0 => p = "part"
    BY <1>2, <2>1, <2>4 DEF Continue
  <2>6. UploaderOK(c)'
    <3>1. /\ Phase(caller[c].job)' = "prepared" /\ Token(caller[c].job)' = Token(j)
          /\ parts'[caller'[c].job] = parts[j]
      BY <1>4, <1>5, <2>3 DEF Phase, Token
    <3> QED
      BY <2>1, <2>3, <2>4, <2>5, <3>1 DEF UploaderOK
  <2>7. p \notin SubmitSteps /\ p # "token"
    BY <2>5 DEF SubmitSteps
  <2> QED
    BY <1>3, <1>a, <1>5, <1>6, <2>3, <2>6, <2>7, WholeMoves
<1>8. CASE CompleteUpload(c)
  <2>1. /\ caller[c].pc = "part" /\ caller[c].todo = {}
        /\ caller' = [caller EXCEPT ![c] = [caller[c] EXCEPT !.pc = "uploaded"]]
    BY <1>8 DEF CompleteUpload, Goto
  <2>2. /\ caller'[c].pc = "uploaded" /\ caller'[c].job = j
        /\ caller'[c].token = caller[c].token /\ \A d \in Callers \ {c} : caller'[d] = caller[d]
    BY <1>2, <1>3, <2>1 DEF Works
  <2>3. /\ caller[c].token = Token(j) /\ Token(j) # None /\ PartsOf[j] # 0
        /\ (1..PartsOf[j]) \ parts[j] = {}
    BY <1>2, <1>3, <2>1 DEF UploaderOK
  <2>4. uploads[Token(j)] = Needed(j)
    BY <1>3, <2>3 DEF UploadOK, Needed
  <2>5. UploaderOK(c)'
    <3>1. Phase(caller[c].job)' = "prepared" /\ Token(caller[c].job)' = Token(j)
      BY <1>4, <1>5, <2>2 DEF Phase, Token
    <3> QED
      BY <1>4, <2>2, <2>3, <2>4, <3>1 DEF UploaderOK
  <2>6. caller'[c].pc \notin SubmitSteps /\ caller'[c].pc # "token"
    BY <2>2 DEF SubmitSteps
  <2> QED
    BY <1>3, <1>a, <1>5, <1>6, <2>2, <2>5, <2>6, WholeMoves
<1>9. CASE UploadFails(c)
  <2>1. /\ caller'[c].pc = "idle" /\ \A d \in Callers \ {c} : caller'[d] = caller[d]
    BY <1>3, <1>9 DEF UploadFails, Finish, Idle
  <2>2. caller'[c].pc \notin SubmitSteps /\ caller'[c].pc # "token" /\ ~Uploads(c)'
    BY <2>1 DEF SubmitSteps, Uploads, UploadSteps
  <2> QED
    BY <1>3, <1>a, <1>5, <1>6, <2>1, <2>2, WholeMoves
<1> QED
  BY <1>7, <1>8, <1>9

(* A token is obtained, and recorded while the attempt is prepared.          *)
LEMMA WholeToken ==
  ASSUME TypeOK, TypeOK', WholeOK, NEW c \in Callers,
         InitializeUpload(c) \/ RecordUploadToken(c)
  PROVE  WholeOK'
<1> USE Nothing
<1>1. Uploads(c)
  BY DEF Uploads, UploadSteps, InitializeUpload, RecordUploadToken
<1>2. PICK j \in Jobs : j = caller[c].job
  BY <1>1, Running
<1>3. UploaderOK(c) /\ UploadOK(j) /\ caller[c] \in Works /\ caller \in [Callers -> Works]
      /\ PartsOf[j] \in Nat /\ attempt[j] \in Attempts
      /\ \A d \in Callers \ {c} : Uploads(d) => caller[d].job # j
  BY <1>1, <1>2, Running
<1>4. Phase(j) = "prepared" /\ Token(j) = None /\ parts[j] = {}
      /\ caller[c].todo = (1..PartsOf[j]) \ parts[j]
  BY <1>2, <1>3 DEF UploaderOK, UploadOK, InitializeUpload, RecordUploadToken
<1>5. uploads \in Seq(SUBSET Nat) /\ Len(uploads) \in Nat
  BY DEF TypeOK
<1>6. CASE InitializeUpload(c)
  <2> DEFINE len == Len(uploads)
  <2>1. PICK w : w = [caller[c] EXCEPT !.token = len + 1, !.pc = "token"]
    OBVIOUS
  <2>2. /\ w.pc = "token" /\ w.job = j /\ w.token = len + 1 /\ w.todo = caller[c].todo
    BY <1>2, <1>3, <2>1 DEF Works
  <2>3. caller' = [caller EXCEPT ![c] = w]
    BY <1>6, <2>1 DEF InitializeUpload
  <2>4. /\ caller'[c].pc = "token" /\ caller'[c].job = j /\ caller'[c].token = len + 1
        /\ caller'[c].todo = caller[c].todo /\ \A d \in Callers \ {c} : caller'[d] = caller[d]
    BY <1>3, <2>2, <2>3
  <2>5. /\ UNCHANGED <<attempt, parts, requests, archives>>
        /\ Len(uploads') = len + 1 /\ uploads'[len + 1] = {}
        /\ \A n \in 1..len : uploads'[n] = uploads[n]
    BY <1>5, <1>6 DEF InitializeUpload, durable
  <2>6. \A k \in Jobs : Phase(k)' = Phase(k) /\ Token(k)' = Token(k)
    BY <2>5 DEF Phase, Token
  <2>7. \A k \in Jobs : Token(k) # None => Token(k) \in 1..len
    BY DEF WholeOK, UploadOK
  <2>8. UploadOK(j)'
    BY <1>3, <1>4, <2>5, <2>6 DEF UploadOK
  <2>9. UploaderOK(c)'
    <3>1. /\ Phase(caller[c].job)' = "prepared" /\ Token(caller[c].job)' = None
          /\ parts'[caller'[c].job] = parts[j]
      BY <1>4, <2>4, <2>5 DEF Phase, Token
    <3> QED
      BY <1>4, <2>4, <3>1 DEF UploaderOK
  <2>10. FreshOK(c)'
    <3>1. caller'[c].token \in 1..Len(uploads') /\ uploads'[caller'[c].token] = {}
      BY <1>5, <2>4, <2>5
    <3>2. \A k \in Jobs : Token(k)' # caller'[c].token
      BY <1>5, <2>4, <2>6, <2>7
    <3>3. ASSUME NEW d \in Callers \ {c}, caller'[d].pc = "token"
          PROVE  caller'[d].token # caller'[c].token
      <4>1. caller[d].token \in 1..len
        BY <2>4, <3>3 DEF WholeOK, FreshOK
      <4> QED
        BY <1>5, <2>4, <3>3, <4>1
    <3> QED
      BY <3>1, <3>2, <3>3 DEF FreshOK
  <2>11. caller'[c].pc \notin SubmitSteps
    BY <2>4 DEF SubmitSteps
  <2>12. Len(uploads) <= Len(uploads')
    BY <1>5, <2>5
  <2> QED
    BY <1>3, <1>4, <2>4, <2>5, <2>6, <2>8, <2>9, <2>10, <2>11, <2>12, WholeMoves
<1>7. CASE RecordUploadToken(c)
  <2>1. PICK t : t = caller[c].token
    OBVIOUS
  <2>2. caller[c].pc = "token" /\ FreshOK(c)
    BY <1>7 DEF RecordUploadToken, WholeOK
  <2>3. t \in 1..Len(uploads) /\ uploads[t] = {} /\ t # None
    BY <1>5, <2>1, <2>2 DEF FreshOK
  <2>4. PICK p : p = Continue(c, t)
    OBVIOUS
  <2>5. (PartsOf[j] = 0 => p = "small") /\ (PartsOf[j] # 0 => p = "part")
    BY <1>2, <2>3, <2>4 DEF Continue
  <2>6. /\ attempt' = [attempt EXCEPT ![j].token = t]
        /\ caller' = [caller EXCEPT ![c] = [caller[c] EXCEPT !.pc = p]]
        /\ UNCHANGED <<parts, uploads, requests, archives>>
    BY <1>2, <1>4, <1>7, <2>1, <2>4 DEF RecordUploadToken, Goto, platform
  <2>7. /\ caller'[c].pc = p /\ caller'[c].job = j /\ caller'[c].token = t
        /\ caller'[c].todo = caller[c].todo /\ \A d \in Callers \ {c} : caller'[d] = caller[d]
    BY <1>2, <1>3, <2>1, <2>6 DEF Works
  <2>8. /\ attempt'[j] \in Attempts
        /\ attempt'[j].phase = attempt[j].phase /\ attempt'[j].token = t
        /\ \A k \in Jobs \ {j} : attempt'[k] = attempt[k]
    <3>1. attempt \in [Jobs -> Attempts \cup {None}]
      BY DEF TypeOK
    <3>2. PICK r : r = [attempt[j] EXCEPT !.token = t]
      OBVIOUS
    <3>3. r \in Attempts /\ r.phase = attempt[j].phase /\ r.token = t
      BY <1>3, <1>5, <2>3, <3>2 DEF Attempts
    <3>4. attempt' = [attempt EXCEPT ![j] = r]
      BY <2>6, <3>2
    <3> QED
      BY <3>1, <3>3, <3>4
  <2>9. Phase(j)' = "prepared" /\ Token(j)' = t
    BY <1>3, <1>4, <2>8 DEF Phase, Token
  <2>10. \A k \in Jobs \ {j} : Token(k)' = Token(k) /\ Token(k) # t
    BY <2>1, <2>2, <2>8 DEF Token, FreshOK
  <2>11. UploadOK(j)'
    <3>1. \A k \in Jobs : Token(k)' = t => k = j
      BY <2>10
    <3> QED
      BY <1>4, <2>3, <2>6, <2>9, <3>1 DEF UploadOK
  <2>12. UploaderOK(c)'
    <3>1. /\ Phase(caller[c].job)' = "prepared" /\ Token(caller[c].job)' = t
          /\ parts'[caller'[c].job] = parts[j]
      BY <2>6, <2>7, <2>9 DEF Phase, Token
    <3> QED
      BY <1>4, <2>3, <2>5, <2>7, <3>1 DEF UploaderOK
  <2>13. caller'[c].pc \notin SubmitSteps /\ caller'[c].pc # "token"
    BY <2>5, <2>7 DEF SubmitSteps
  <2>14. /\ Len(uploads) <= Len(uploads')
         /\ \A n \in 1..Len(uploads) : uploads'[n] = uploads[n] \/ n = Token(j)
         /\ \A k \in Jobs \ {j} : attempt'[k] = attempt[k] /\ parts'[k] = parts[k]
    BY <1>5, <2>6, <2>8
  <2> QED
    BY <1>3, <1>4, <2>1, <2>2, <2>6, <2>7, <2>9, <2>11, <2>12, <2>13, <2>14, WholeMoves
<1> QED
  BY <1>6, <1>7

(* What is transferred goes under the recorded token, and is recorded next.  *)
LEMMA WholeTransfers ==
  ASSUME TypeOK, TypeOK', WholeOK, NEW c \in Callers,
         UploadPart(c) \/ UploadSmallFile(c)
  PROVE  WholeOK'
<1> USE Nothing
<1>1. Uploads(c)
  BY DEF Uploads, UploadSteps, UploadPart, UploadSmallFile
<1>2. PICK j \in Jobs : j = caller[c].job
  BY <1>1, Running
<1>3. UploaderOK(c) /\ UploadOK(j) /\ caller[c] \in Works /\ caller \in [Callers -> Works]
      /\ PartsOf[j] \in Nat /\ \A d \in Callers \ {c} : Uploads(d) => caller[d].job # j
  BY <1>1, <1>2, Running
<1>4. PICK t : t = Token(j) /\ t = caller[c].token
  BY <1>2, <1>3 DEF UploaderOK, UploadPart, UploadSmallFile
<1>5. /\ Phase(j) = "prepared" /\ t # None /\ t \in 1..Len(uploads)
      /\ parts[j] \subseteq uploads[t] /\ uploads[t] \subseteq Needed(j)
  BY <1>2, <1>3, <1>4 DEF UploaderOK, UploadOK, UploadPart, UploadSmallFile
<1>6. uploads \in Seq(SUBSET Nat) /\ Len(uploads) \in Nat
  BY DEF TypeOK
<1>7. UNCHANGED <<attempt, parts, requests, archives>>
  BY DEF UploadPart, UploadSmallFile, durable
<1>8. \A k \in Jobs : Phase(k)' = Phase(k) /\ Token(k)' = Token(k)
  BY <1>7 DEF Phase, Token
<1>9. PICK S, p :
        /\ S \subseteq Needed(j) /\ uploads[t] \subseteq S
        /\ uploads' = [uploads EXCEPT ![t] = S] /\ Goto(c, p)
        /\ \/ /\ p = "record" /\ caller[c].pc = "part" /\ NextPart(c) \in S \cap caller[c].todo
           \/ /\ p = "uploaded" /\ S = Needed(j)
  <2>1. CASE UploadPart(c)
    <3>1. caller[c].pc = "part" /\ caller[c].todo # {} /\ caller[c].todo \in SUBSET Nat
      BY <1>3, <2>1 DEF UploadPart, Works
    <3>2. NextPart(c) \in caller[c].todo
      BY <3>1, LeastPart
    <3>3. NextPart(c) \in Needed(j)
      BY <1>2, <1>3, <3>1, <3>2 DEF UploaderOK, Needed
    <3> QED
      BY <1>4, <1>5, <2>1, <3>1, <3>2, <3>3 DEF UploadPart
  <2>2. CASE UploadSmallFile(c)
    <3>1. PartsOf[j] = 0
      BY <1>2, <1>3, <2>2 DEF UploaderOK, UploadSmallFile
    <3>2. Needed(j) = {1}
      BY <3>1 DEF Needed
    <3> QED
      BY <1>4, <1>5, <2>2, <3>2 DEF UploadSmallFile
  <2> QED
    BY <2>1, <2>2
<1>10. /\ Len(uploads') = Len(uploads) /\ uploads'[t] = S
       /\ \A n \in 1..Len(uploads) : uploads'[n] = uploads[n] \/ n = t
  BY <1>5, <1>6, <1>9
<1>11. /\ caller'[c].pc = p /\ caller'[c].job = j /\ caller'[c].token = t
       /\ caller'[c].todo = caller[c].todo /\ \A d \in Callers \ {c} : caller'[d] = caller[d]
  BY <1>2, <1>3, <1>4, <1>9 DEF Goto, Works
<1>12. UploadOK(j)'
  <2>1. /\ Token(j)' = t /\ t \in 1..Len(uploads') /\ parts'[j] = parts[j]
        /\ \A k \in Jobs : Token(k)' = t => k = j
    BY <1>3, <1>4, <1>5, <1>7, <1>8, <1>10 DEF UploadOK
  <2> QED
    BY <1>5, <1>8, <1>9, <1>10, <2>1 DEF UploadOK, Needed
<1>13. UploaderOK(c)'
  <2>1. /\ Phase(caller[c].job)' = "prepared" /\ Token(caller[c].job)' = t
        /\ parts'[caller'[c].job] = parts[j]
    BY <1>4, <1>5, <1>7, <1>11 DEF Phase, Token
  <2>2. NextPart(c)' = NextPart(c)
    BY <1>11 DEF NextPart
  <2>3. CASE p = "record"
    <3>1. PartsOf[j] # 0 /\ caller[c].todo = (1..PartsOf[j]) \ parts[j]
          /\ NextPart(c) \in S \cap caller[c].todo
      BY <1>2, <1>3, <1>9, <2>3 DEF UploaderOK
    <3> QED
      BY <1>5, <1>10, <1>11, <2>1, <2>2, <2>3, <3>1 DEF UploaderOK
  <2>4. CASE p = "uploaded"
    BY <1>5, <1>9, <1>10, <1>11, <2>1, <2>4 DEF UploaderOK, Needed
  <2> QED
    BY <1>9, <2>3, <2>4
<1>14. caller'[c].pc \notin SubmitSteps /\ caller'[c].pc # "token"
  BY <1>9, <1>11 DEF SubmitSteps
<1>15. /\ Len(uploads) <= Len(uploads')
       /\ \A n \in 1..Len(uploads) : uploads'[n] = uploads[n] \/ n = Token(j)
  BY <1>4, <1>6, <1>10
<1>16. /\ Token(j)' = Token(j) /\ UNCHANGED <<requests, archives>>
       /\ \A k \in Jobs \ {j} : attempt'[k] = attempt[k] /\ parts'[k] = parts[k]
  BY <1>7, <1>8
<1>17. \A d \in Callers \ {c} : caller'[d] = caller[d] /\ (Uploads(d) => caller[d].job # j)
  BY <1>2, <1>3, <1>11
<1> QED
  BY <1>5, <1>11, <1>12, <1>13, <1>14, <1>15, <1>16, <1>17, WholeMoves

(* What was transferred is recorded.                                         *)
LEMMA WholeRecords ==
  ASSUME TypeOK, TypeOK', WholeOK, NEW c \in Callers,
         RecordPartCompleted(c) \/ RecordVideoUploaded(c)
  PROVE  WholeOK'
<1> USE Nothing
<1>1. Uploads(c)
  BY DEF Uploads, UploadSteps, RecordPartCompleted, RecordVideoUploaded
<1>2. PICK j \in Jobs : j = caller[c].job
  BY <1>1, Running
<1>3. UploaderOK(c) /\ UploadOK(j) /\ caller[c] \in Works /\ caller \in [Callers -> Works]
      /\ PartsOf[j] \in Nat /\ attempt[j] \in Attempts
      /\ \A d \in Callers \ {c} : Uploads(d) => caller[d].job # j
  BY <1>1, <1>2, Running
<1>4. PICK t : t = Token(j)
  OBVIOUS
<1>5. /\ Phase(j) = "prepared" /\ t # None /\ t \in 1..Len(uploads) /\ caller[c].token = t
      /\ parts[j] \subseteq uploads[t] /\ uploads[t] \subseteq Needed(j)
      /\ \A k \in Jobs : Token(k) = t => k = j
  BY <1>2, <1>3, <1>4 DEF UploaderOK, UploadOK, RecordPartCompleted, RecordVideoUploaded
<1>6. uploads \in Seq(SUBSET Nat) /\ Len(uploads) \in Nat
  BY DEF TypeOK
<1>7. UNCHANGED <<uploads, requests, archives>>
  BY DEF RecordPartCompleted, RecordVideoUploaded, platform
<1>8. CASE RecordPartCompleted(c)
  <2>1. PICK p : p = NextPart(c)
    OBVIOUS
  <2>2. PICK S : S = caller[c].todo \ {p}
    OBVIOUS
  <2>3. /\ p \in caller[c].todo \cap uploads[t] /\ PartsOf[j] # 0
        /\ caller[c].todo = (1..PartsOf[j]) \ parts[j]
    BY <1>2, <1>3, <1>5, <1>8, <2>1 DEF UploaderOK, RecordPartCompleted
  <2> DEFINE w == [caller[c] EXCEPT !.todo = S, !.pc = "part"]
  <2>4. w.pc = "part" /\ w.job = j /\ w.token = t /\ w.todo = S
    BY <1>2, <1>3, <1>5 DEF Works
  <2>5. /\ caller' = [caller EXCEPT ![c] = w]
        /\ parts' = [parts EXCEPT ![j] = parts[j] \cup {p}] /\ UNCHANGED attempt
    BY <1>2, <1>5, <1>8, <2>1, <2>2 DEF RecordPartCompleted
  <2> HIDE DEF w
  <2>6. /\ caller'[c].pc = "part" /\ caller'[c].job = j /\ caller'[c].token = t
        /\ caller'[c].todo = S /\ \A d \in Callers \ {c} : caller'[d] = caller[d]
    BY <1>3, <2>4, <2>5
  <2>7. /\ parts'[j] = parts[j] \cup {p}
        /\ \A k \in Jobs \ {j} : attempt'[k] = attempt[k] /\ parts'[k] = parts[k]
    BY <2>5 DEF TypeOK
  <2>8. \A k \in Jobs : Phase(k)' = Phase(k) /\ Token(k)' = Token(k)
    BY <2>5 DEF Phase, Token
  <2>9. UploadOK(j)'
    BY <1>4, <1>5, <1>7, <2>3, <2>7, <2>8 DEF UploadOK
  <2>10. UploaderOK(c)'
    <3>1. Phase(caller[c].job)' = "prepared" /\ Token(caller[c].job)' = t
      BY <1>4, <1>5, <2>5, <2>6 DEF Phase, Token
    <3>2. S = (1..PartsOf[j]) \ parts'[j]
      BY <2>2, <2>3, <2>7
    <3> QED
      BY <1>5, <2>3, <2>6, <3>1, <3>2 DEF UploaderOK
  <2>11. caller'[c].pc \notin SubmitSteps /\ caller'[c].pc # "token"
    BY <2>6 DEF SubmitSteps
  <2>12. /\ Len(uploads) <= Len(uploads') /\ Token(j)' = Token(j)
         /\ \A n \in 1..Len(uploads) : uploads'[n] = uploads[n] \/ n = Token(j)
    BY <1>6, <1>7, <2>8
  <2>13. \A d \in Callers \ {c} : caller'[d] = caller[d] /\ (Uploads(d) => caller[d].job # j)
    BY <1>3, <2>6
  <2> QED
    BY <1>5, <1>7, <2>6, <2>7, <2>9, <2>10, <2>11, <2>12, <2>13, WholeMoves
<1>9. CASE RecordVideoUploaded(c)
  <2>1. attempt[j].token = t /\ attempt[j] # None
    BY <1>3, <1>4 DEF Token
  <2>2. /\ attempt' = [attempt EXCEPT ![j].phase = "video_uploaded"]
        /\ caller' = [caller EXCEPT ![c] = Idle] /\ UNCHANGED parts
    BY <1>2, <1>5, <1>9, <2>1 DEF RecordVideoUploaded, Finish
  <2>3. uploads[t] = Needed(j)
    BY <1>2, <1>3, <1>5, <1>9 DEF UploaderOK, RecordVideoUploaded
  <2>4. /\ attempt'[j] # None /\ attempt'[j].phase = "video_uploaded" /\ attempt'[j].token = t
        /\ \A k \in Jobs \ {j} : attempt'[k] = attempt[k]
    <3>1. attempt \in [Jobs -> Attempts \cup {None}]
      BY DEF TypeOK
    <3>2. PICK r : r = [attempt[j] EXCEPT !.phase = "video_uploaded"]
      OBVIOUS
    <3>3. r \in Attempts /\ r.phase = "video_uploaded" /\ r.token = t
      BY <1>3, <2>1, <3>2 DEF Attempts, Phases
    <3>4. attempt' = [attempt EXCEPT ![j] = r]
      BY <2>2, <3>2
    <3> QED
      BY <3>1, <3>3, <3>4
  <2>5. Phase(j)' = "video_uploaded" /\ Token(j)' = t
    BY <2>4 DEF Phase, Token
  <2>6. \A k \in Jobs \ {j} : Token(k)' = Token(k)
    BY <2>4 DEF Token
  <2>7. caller'[c].pc = "idle" /\ \A d \in Callers \ {c} : caller'[d] = caller[d]
    BY <1>3, <2>2 DEF Idle
  <2>8. UploadOK(j)'
    <3>1. \A k \in Jobs : Token(k)' = t => k = j
      BY <1>5, <2>6
    <3>2. uploads'[t] = Needed(j) /\ parts'[j] = parts[j] /\ t \in 1..Len(uploads')
      BY <1>5, <1>7, <2>2, <2>3
    <3> QED
      BY <1>5, <2>3, <2>5, <3>1, <3>2 DEF UploadOK, Needed
  <2>9. ~Uploads(c)' /\ caller'[c].pc \notin SubmitSteps /\ caller'[c].pc # "token"
    BY <2>7 DEF SubmitSteps, Uploads, UploadSteps
  <2>10. /\ Len(uploads) <= Len(uploads') /\ Token(j)' = Token(j)
         /\ \A n \in 1..Len(uploads) : uploads'[n] = uploads[n] \/ n = Token(j)
         /\ \A k \in Jobs \ {j} : attempt'[k] = attempt[k] /\ parts'[k] = parts[k]
    BY <1>4, <1>6, <1>7, <2>2, <2>4, <2>5
  <2>11. \A d \in Callers \ {c} : caller'[d] = caller[d] /\ (Uploads(d) => caller[d].job # j)
    BY <1>3, <2>7
  <2> QED
    BY <1>5, <1>7, <2>8, <2>9, <2>10, <2>11, WholeMoves
<1> QED
  BY <1>8, <1>9

(* What a step that changes no attempt and asks for nothing more keeps.      *)
LEMMA WholeKept ==
  ASSUME TypeOK, TypeOK', WholeOK, UNCHANGED <<attempt, parts, uploads, archives>>,
         requests' \subseteq requests, \A c \in Callers : Follows(c)
  PROVE  WholeOK'
<1>1. \A j \in Jobs : Steady(j)
  BY DEF Steady, Phase, Token
<1>2. \A r \in requests' : Past(r.job) /\ r.token = Token(r.job)
  BY DEF WholeOK
<1>3. \A n \in 1..Len(archives') : archives'[n].job # None =>
         Past(archives'[n].job) /\ archives'[n].token = Token(archives'[n].job)
  BY DEF WholeOK
<1> QED
  BY <1>1, <1>2, <1>3, WholeSteady

(* One attempt changes, in a way an upload does not see.                     *)
LEMMA WholeSettles ==
  ASSUME TypeOK, TypeOK', WholeOK, UNCHANGED <<parts, uploads, requests, archives>>,
         NEW j \in Jobs, \A k \in Jobs \ {j} : attempt'[k] = attempt[k], Steady(j),
         \A c \in Callers : Follows(c)
  PROVE  WholeOK'
<1>1. \A k \in Jobs : Steady(k)
  BY DEF Steady, Phase, Token
<1>2. \A r \in requests' : Past(r.job) /\ r.token = Token(r.job)
  BY DEF WholeOK
<1>3. \A n \in 1..Len(archives') : archives'[n].job # None =>
         Past(archives'[n].job) /\ archives'[n].token = Token(archives'[n].job)
  BY DEF WholeOK
<1> QED
  BY <1>1, <1>2, <1>3, WholeSteady

(* Preparing, closing a session, the cover, and a kill.                      *)
LEMMA WholeRest ==
  ASSUME TypeOK, TypeOK', WholeOK,
         \/ \E i \in Installations, j \in Jobs : \E ct \in ContentsOf[j] : Prepare(i, j, ct)
         \/ \E s \in sessions : CloseSession(s)
         \/ \E j \in Jobs : UploadCover(j)
         \/ Kill
  PROVE  WholeOK'
<1> USE Nothing
<1>1. ASSUME NEW i \in Installations, NEW j \in Jobs, NEW ct \in ContentsOf[j], Prepare(i, j, ct)
      PROVE  WholeOK'
  <2>1. UNCHANGED <<parts, uploads, requests, archives, caller>>
    BY <1>1 DEF Prepare, platform
  <2>2. \A c \in Callers : Follows(c)
    BY <2>1 DEF Follows
  <2>3. Steady(j) /\ \A k \in Jobs \ {j} : attempt'[k] = attempt[k]
    <3>1. CASE attempt[j] # None
      BY <1>1, <3>1 DEF Prepare, Steady, Phase, Token
    <3>2. CASE attempt[j] = None
      <4>1. attempt' = [attempt EXCEPT ![j] = NewAttempt(ct)] /\ attempt \in [Jobs -> Attempts \cup {None}]
        BY <1>1, <3>2 DEF Prepare, TypeOK
      <4>2. attempt'[j] = NewAttempt(ct) /\ \A k \in Jobs \ {j} : attempt'[k] = attempt[k]
        BY <4>1
      <4>3. NewAttempt(ct).phase = "prepared" /\ NewAttempt(ct).token = None
        BY DEF NewAttempt
      <4>4. attempt'[j] # None
        <5>1. ct \in Contents
          BY DEF Contents
        <5>2. NewAttempt(ct) \in Attempts
          BY <5>1 DEF NewAttempt, Attempts, Phases
        <5> QED
          BY <4>2, <5>2
      <4> QED
        BY <3>2, <4>2, <4>3, <4>4 DEF Steady, Phase, Token
    <3> QED
      BY <3>1, <3>2
  <2> QED
    BY <2>1, <2>2, <2>3, WholeSettles
<1>2. ASSUME NEW s \in sessions, CloseSession(s)
      PROVE  WholeOK'
  <2>1. UNCHANGED <<attempt, parts, uploads, archives, requests, caller>>
    BY <1>2 DEF CloseSession, durable, platform
  <2>2. \A c \in Callers : Follows(c)
    BY <2>1 DEF Follows
  <2>3. requests' \subseteq requests /\ UNCHANGED <<attempt, parts, uploads, archives>>
    BY <2>1
  <2> QED
    BY <2>2, <2>3, WholeKept
<1>3. ASSUME NEW j \in Jobs, UploadCover(j)
      PROVE  WholeOK'
  <2>1. UNCHANGED <<parts, uploads, requests, archives, caller>>
    BY <1>3 DEF UploadCover, platform, runtime
  <2>2. attempt[j] \in Attempts /\ attempt \in [Jobs -> Attempts \cup {None}]
    <3>1. attempt[j] # None
      BY <1>3 DEF UploadCover, Phase, Phases
    <3>2. attempt \in [Jobs -> Attempts \cup {None}]
      BY DEF TypeOK
    <3> QED
      BY <3>1, <3>2
  <2>3. PICK r : r = [attempt[j] EXCEPT !.cover = TRUE]
    OBVIOUS
  <2>4. r \in Attempts /\ r.phase = attempt[j].phase /\ r.token = attempt[j].token
    BY <2>2, <2>3 DEF Attempts
  <2>5. attempt' = [attempt EXCEPT ![j] = r]
    BY <1>3, <2>3 DEF UploadCover
  <2>6. attempt'[j] = r /\ \A k \in Jobs \ {j} : attempt'[k] = attempt[k]
    BY <2>2, <2>5
  <2>7. Steady(j)
    BY <2>2, <2>4, <2>6 DEF Steady, Phase, Token
  <2> QED
    BY <2>1, <2>6, <2>7, WholeSettles DEF Follows
<1>4. CASE Kill
  <2>1. \A c \in Callers : Follows(c)
    BY <1>4 DEF Kill, Idle, Follows, UploadSteps, SubmitSteps
  <2> QED
    BY <1>4, <2>1, WholeKept DEF Kill, durable, platform
<1> QED
  BY <1>1, <1>2, <1>3, <1>4

(* Only what has been uploaded is submitted, under its recorded token.       *)
LEMMA WholeSubmits ==
  ASSUME TypeOK, TypeOK', WholeOK, NEW c \in Callers,
         \/ BeginArchiveCreation(c) \/ TokenUnavailable(c) \/ SendArchiveAdd(c)
         \/ ReceiveAnswer(c) \/ AnswerLost(c) \/ SettleCreation(c) \/ Conclude(c)
         \/ RetireSession(c)
  PROVE  WholeOK'
<1> USE Nothing
<1>1. caller \in [Callers -> Works] /\ caller[c] \in Works
  BY DEF TypeOK, CallerOK
<1>2. ASSUME NEW p \in Steps \ (UploadSteps \cup SubmitSteps), caller'[c].pc = p,
             \A d \in Callers \ {c} : caller'[d] = caller[d]
      PROVE  \A d \in Callers : Follows(d)
  BY <1>2 DEF Follows
<1>3. CASE TokenUnavailable(c) \/ ReceiveAnswer(c) \/ AnswerLost(c) \/ Conclude(c) \/ RetireSession(c)
  <2>1. UNCHANGED <<attempt, parts, uploads, archives, requests>>
    BY <1>3 DEF TokenUnavailable, ReceiveAnswer, AnswerLost, Conclude, RetireSession,
               durable, platform
  <2>2. \E p \in {"retire", "settle", "idle"} : caller'[c].pc = p
    <3>1. CASE TokenUnavailable(c)
      BY <1>1, <3>1 DEF TokenUnavailable, Goto, Works
    <3>2. CASE ReceiveAnswer(c)
      <4>1. PICK a : a = answers[caller[c].job]
        OBVIOUS
      <4>2. PICK w : w = [caller[c] EXCEPT !.answer = a, !.pc = "settle"]
        OBVIOUS
      <4>3. w.pc = "settle" /\ caller' = [caller EXCEPT ![c] = w]
        BY <1>1, <3>2, <4>1, <4>2 DEF ReceiveAnswer, Works
      <4> QED
        BY <1>1, <4>3
    <3>3. CASE AnswerLost(c)
      <4>1. PICK a : a = Answer("lost", None)
        OBVIOUS
      <4>2. PICK w : w = [caller[c] EXCEPT !.answer = a, !.pc = "settle"]
        OBVIOUS
      <4>3. w.pc = "settle" /\ caller' = [caller EXCEPT ![c] = w]
        BY <1>1, <3>3, <4>1, <4>2 DEF AnswerLost, Works
      <4> QED
        BY <1>1, <4>3
    <3>4. CASE Conclude(c) \/ RetireSession(c)
      BY <1>1, <3>4 DEF Conclude, RetireSession, Finish, Idle
    <3> QED
      BY <1>3, <3>1, <3>2, <3>3, <3>4
  <2>3. \A d \in Callers \ {c} : caller'[d] = caller[d]
    BY <1>1, <1>3 DEF TokenUnavailable, ReceiveAnswer, AnswerLost, Conclude, RetireSession,
               Goto, Finish
  <2>4. {"retire", "settle", "idle"} \subseteq Steps \ (UploadSteps \cup SubmitSteps)
    BY DEF Steps, UploadSteps, SubmitSteps
  <2> QED
    BY <1>2, <2>1, <2>2, <2>3, <2>4, WholeKept
<1>4. CASE BeginArchiveCreation(c)
  <2>1. caller[c].pc = "admit"
    BY <1>4 DEF BeginArchiveCreation
  <2>2. PICK j \in Jobs : j = caller[c].job
    BY <2>1 DEF TypeOK, CallerOK
  <2>3. Past(j) /\ caller[c].token = Token(j)
    BY <2>1, <2>2 DEF WholeOK, SubmitSteps
  <2>4. UNCHANGED <<parts, uploads, requests, archives>>
    BY <1>4 DEF BeginArchiveCreation, platform
  <2>5. PICK p \in {"send", "conclude", "retire"} : Goto(c, p)
    BY <1>4 DEF BeginArchiveCreation
  <2>6. /\ caller'[c].pc = p /\ caller'[c].job = j /\ caller'[c].token = caller[c].token
        /\ \A d \in Callers \ {c} : caller'[d] = caller[d]
    BY <1>1, <2>2, <2>5 DEF Goto, Works
  <2>7. \A d \in Callers : Follows(d)
    BY <2>2, <2>3, <2>6 DEF Follows, UploadSteps, SubmitSteps
  <2>8. CASE Admitted(j)
    <3>1. attempt[j] \in Attempts /\ attempt \in [Jobs -> Attempts \cup {None}]
      BY <2>8, Parts DEF Admitted, Phase, Phases, TypeOK
    <3>2. PICK r : r = [attempt[j] EXCEPT !.phase = "dispatched"]
      OBVIOUS
    <3>3. r \in Attempts /\ r.phase = "dispatched" /\ r.token = attempt[j].token
      BY <3>1, <3>2 DEF Attempts, Phases
    <3>4. attempt' = [attempt EXCEPT ![j] = r]
      BY <1>4, <2>2, <2>8, <3>2 DEF BeginArchiveCreation
    <3>5. attempt'[j] = r /\ \A k \in Jobs \ {j} : attempt'[k] = attempt[k]
      BY <3>1, <3>4
    <3>6. Steady(j)
      BY <2>3, <3>1, <3>3, <3>5 DEF Steady, Phase, Token, Past, Phases
    <3> QED
      BY <2>4, <2>7, <3>5, <3>6, WholeSettles
  <2>9. CASE ~Admitted(j)
    BY <1>4, <2>2, <2>4, <2>7, <2>9, WholeKept DEF BeginArchiveCreation
  <2> QED
    BY <2>8, <2>9
<1>5. CASE SendArchiveAdd(c)
  <2>1. caller[c].pc = "send" /\ UNCHANGED <<attempt, parts, uploads, archives>>
    BY <1>5 DEF SendArchiveAdd, durable
  <2>2. caller'[c].pc = "await" /\ \A d \in Callers \ {c} : caller'[d] = caller[d]
    BY <1>1, <1>5 DEF SendArchiveAdd, Goto, Works
  <2>3. \A d \in Callers : Follows(d)
    BY <2>2 DEF Follows, UploadSteps, SubmitSteps
  <2>4. \A j \in Jobs : Steady(j)
    BY <2>1 DEF Steady, Phase, Token
  <2>5. \A r \in requests' : Past(r.job) /\ r.token = Token(r.job)
    <3>1. Past(caller[c].job) /\ caller[c].token = Token(caller[c].job)
      BY <2>1 DEF WholeOK, SubmitSteps
    <3> QED
      BY <1>5, <3>1 DEF SendArchiveAdd, WholeOK
  <2>6. \A n \in 1..Len(archives') : archives'[n].job # None =>
           Past(archives'[n].job) /\ archives'[n].token = Token(archives'[n].job)
    BY <2>1 DEF WholeOK
  <2> QED
    BY <2>1, <2>3, <2>4, <2>5, <2>6, WholeSteady
<1>6. CASE SettleCreation(c)
  <2>1. caller[c].pc = "settle" /\ UNCHANGED <<parts, uploads, requests, archives>>
    BY <1>6 DEF SettleCreation, platform
  <2>2. PICK j \in Jobs : j = caller[c].job
    BY <2>1 DEF TypeOK, CallerOK
  <2>3. PICK p \in {"conclude", "retire"} : Goto(c, p)
    BY <1>6 DEF SettleCreation
  <2>4. caller'[c].pc = p /\ \A d \in Callers \ {c} : caller'[d] = caller[d]
    BY <1>1, <2>3 DEF Goto, Works
  <2>5. \A d \in Callers : Follows(d)
    BY <2>4 DEF Follows, UploadSteps, SubmitSteps
  <2>6. CASE Phase(j) = "dispatched"
    <3>1. PICK a \in Answers : a = caller[c].answer
      BY <2>1 DEF TypeOK, CallerOK, Works
    <3>2. attempt' = SettlePhase(j, a)
      BY <1>6, <2>2, <2>6, <3>1 DEF SettleCreation
    <3>3. /\ attempt'[j].phase \in {"outcome_uncertain", "failed", "submitted"}
          /\ attempt'[j].token = attempt[j].token /\ attempt'[j] # None
          /\ \A k \in Jobs \ {j} : attempt'[k] = attempt[k]
      BY <2>6, <3>2, Settling
    <3>4. attempt[j] # None
      BY <2>6 DEF Phase, Phases
    <3>5. Steady(j)
      BY <2>6, <3>3, <3>4 DEF Steady, Phase, Token, Past, Phases
    <3> QED
      BY <2>1, <2>5, <3>3, <3>5, WholeSettles
  <2>7. CASE Phase(j) # "dispatched"
    BY <1>6, <2>1, <2>2, <2>5, <2>7, WholeKept DEF SettleCreation
  <2> QED
    BY <2>6, <2>7
<1> QED
  BY <1>3, <1>4, <1>5, <1>6

(* An archive is made of the request's upload; the platform's review changes *)
(* only what it says of it.                                                  *)
LEMMA WholePlatform ==
  ASSUME TypeOK, TypeOK', WholeOK, Platform
  PROVE  WholeOK'
<1> USE Nothing
<1>1. UNCHANGED <<attempt, parts, uploads, caller>>
  BY DEF Platform, CarryOut, Refuse, Review, durable, runtime
<1>2. \A c \in Callers : Follows(c)
  BY <1>1 DEF Follows
<1>3. \A j \in Jobs : Steady(j)
  BY <1>1 DEF Steady, Phase, Token
<1>4. \A r \in requests' : Past(r.job) /\ r.token = Token(r.job)
  BY DEF Platform, CarryOut, Refuse, Review, WholeOK
<1>5. archives \in Seq(Archives) /\ Len(archives) \in Nat
  BY DEF TypeOK
<1>6. \A n \in 1..Len(archives') : archives'[n].job # None =>
         Past(archives'[n].job) /\ archives'[n].token = Token(archives'[n].job)
  <2>1. ASSUME NEW r \in requests, CarryOut(r),
               NEW n \in 1..Len(archives'), archives'[n].job # None
        PROVE  Past(archives'[n].job) /\ archives'[n].token = Token(archives'[n].job)
    <3> DEFINE a == Archive(Len(archives) + 1, attempt[r.job].content.title, r.job, r.token, TRUE)
    <3>1. archives' = <<a>> \o archives
      BY <2>1 DEF CarryOut
    <3>2. a.job = r.job /\ a.token = r.token
      BY DEF Archive
    <3> HIDE DEF a
    <3>3. \/ archives'[n] = a
          \/ \E m \in 1..Len(archives) : archives'[n] = archives[m]
      <4>1. CASE n = 1
        BY <1>5, <3>1, <4>1
      <4>2. CASE n # 1
        <5>1. n - 1 \in 1..Len(archives) /\ archives'[n] = archives[n - 1]
          BY <1>5, <2>1, <3>1, <4>2
        <5> QED
          BY <5>1
      <4> QED
        BY <4>1, <4>2
    <3>4. Past(r.job) /\ r.token = Token(r.job)
      BY DEF WholeOK
    <3> QED
      BY <2>1, <3>2, <3>3, <3>4 DEF WholeOK
  <2>2. ASSUME NEW m \in 1..Len(archives), Review(m),
               NEW n \in 1..Len(archives'), archives'[n].job # None
        PROVE  Past(archives'[n].job) /\ archives'[n].token = Token(archives'[n].job)
    <3>1. PICK v : archives' = [archives EXCEPT ![m].state = v]
      BY <2>2 DEF Review
    <3>2. PICK b : b = [archives[m] EXCEPT !.state = v]
      OBVIOUS
    <3>3. b.job = archives[m].job /\ b.token = archives[m].token
      BY <1>5, <3>2 DEF Archives
    <3>4. archives' = [archives EXCEPT ![m] = b]
      BY <3>1, <3>2
    <3>5. /\ n \in 1..Len(archives)
          /\ archives'[n].job = archives[n].job /\ archives'[n].token = archives[n].token
      BY <1>5, <2>2, <3>3, <3>4
    <3> QED
      BY <2>2, <3>5 DEF WholeOK
  <2>3. ASSUME NEW r \in requests, Refuse(r)
        PROVE  UNCHANGED archives
    BY <2>3 DEF Refuse
  <2> QED
    BY <2>1, <2>2, <2>3 DEF Platform, WholeOK
<1> QED
  BY <1>1, <1>2, <1>3, <1>4, <1>6, WholeSteady

(* The reconciliation moves a dispatched attempt to uncertain, and no other. *)
LEMMA WholeReconciles ==
  ASSUME TypeOK, TypeOK', WholeOK, Reconciliation
  PROVE  WholeOK'
<1> USE Nothing
<1>1. UNCHANGED <<parts, uploads, requests, archives, caller>>
  <2>1. CASE RecoverFence \/ ReconcileFence
    BY <2>1 DEF RecoverFence, ReconcileFence, runtime, platform
  <2> QED
    BY <2>1, ReconciliationReads DEF runtime, platform
<1>2. \A c \in Callers : Follows(c)
  BY <1>1 DEF Follows
<1>3. CASE UNCHANGED attempt
  BY <1>1, <1>2, <1>3, WholeKept
<1>4. ASSUME NEW j, Phase(j) = "dispatched", attempt' = Fenced(j)
      PROVE  WholeOK'
  <2>1. \A k \in Jobs : k # j => attempt'[k] = attempt[k]
    BY <1>4, Fencing
  <2>2. CASE j \in Jobs
    <3>1. /\ attempt'[j] \in Attempts /\ attempt'[j].phase = "outcome_uncertain"
          /\ attempt'[j].token = attempt[j].token
      BY <1>4, <2>2, Fencing
    <3>2. attempt[j] # None
      BY <1>4 DEF Phase, Phases
    <3>3. Steady(j)
      BY <1>4, <3>1, <3>2 DEF Steady, Phase, Token, Past, Phases
    <3> QED
      BY <1>1, <1>2, <2>1, <2>2, <3>3, WholeSettles
  <2>3. CASE j \notin Jobs
    <3>1. UNCHANGED attempt
      BY <1>4, <2>3 DEF Fenced, TypeOK
    <3> QED
      BY <1>1, <1>2, <3>1, WholeKept
  <2> QED
    BY <2>2, <2>3
<1> QED
  BY <1>3, <1>4, ReconciliationReads DEF RecoverFence, ReconcileFence

(* A submission begins with what is uploaded, or sends nothing.              *)
LEMMA WholeAsks ==
  ASSUME TypeOK, TypeOK', WholeOK, NEW c \in Callers, NEW s \in sessions, SubmitBegin(c, s)
  PROVE  WholeOK'
<1> USE Nothing
<1>1. PICK j \in Jobs : j = s.job
  BY DEF TypeOK
<1>2. UNCHANGED <<attempt, parts, uploads, requests, archives>> /\ attempt[j] # None
  BY <1>1 DEF SubmitBegin, durable, platform
<1>3. PICK t : t = attempt[j].token
  OBVIOUS
<1>4. PICK p : /\ p \in {"conclude", "admit", "retire"} /\ p = "admit" => Submittable(j)
               /\ p = IF Phase(j) \in {"submitted", "dispatched"} THEN "conclude"
                      ELSE IF Submittable(j) THEN "admit" ELSE "retire"
  OBVIOUS
<1>5. PICK w : w = [Idle EXCEPT !.pc = p, !.job = j, !.session = s.token, !.token = t]
  OBVIOUS
<1>6. w.pc = p /\ w.job = j /\ w.token = t
  BY <1>5 DEF Idle
<1>7. caller' = [caller EXCEPT ![c] = w]
  BY <1>1, <1>3, <1>4, <1>5 DEF SubmitBegin
<1>8. /\ caller'[c].pc = p /\ caller'[c].job = j /\ caller'[c].token = t
      /\ \A d \in Callers \ {c} : caller'[d] = caller[d]
  BY <1>6, <1>7 DEF TypeOK, CallerOK
<1>9. p = "admit" => Past(j) /\ t = Token(j)
  BY <1>2, <1>3, <1>4 DEF Submittable, Past, Token, Phases
<1>10. \A d \in Callers : Follows(d)
  BY <1>4, <1>8, <1>9 DEF Follows, UploadSteps, SubmitSteps
<1> QED
  BY <1>2, <1>10, WholeKept

(* Every step keeps the uploads whole.                                       *)
LEMMA WholeNext ==
  ASSUME SerialUploads, TypeOK, TypeOK', WholeOK, [Next]_vars
  PROVE  WholeOK'
<1>1. CASE UNCHANGED vars
  <2>1. UNCHANGED <<attempt, parts, uploads, requests, archives, caller>>
    BY <1>1 DEF vars, durable, runtime, platform
  <2>2. \A c \in Callers : Follows(c)
    BY <2>1 DEF Follows
  <2>3. requests' \subseteq requests /\ UNCHANGED <<attempt, parts, uploads, archives>>
    BY <2>1
  <2> QED
    BY <2>2, <2>3, WholeKept
<1>2. CASE Publishing
  <2>1. ASSUME NEW c \in Callers, NEW s \in sessions, UploadBegin(c, s) \/ SubmitBegin(c, s)
        PROVE  WholeOK'
    BY <2>1, WholeBegins, WholeAsks
  <2>2. ASSUME NEW c \in Callers,
               \/ UploadPlan(c) \/ InitializeUpload(c) \/ RecordUploadToken(c)
               \/ UploadPart(c) \/ RecordPartCompleted(c) \/ UploadSmallFile(c)
               \/ CompleteUpload(c) \/ RecordVideoUploaded(c) \/ UploadFails(c)
        PROVE  WholeOK'
    BY <2>2, WholeReads, WholeToken, WholeTransfers, WholeRecords
  <2>3. ASSUME NEW c \in Callers,
               \/ BeginArchiveCreation(c) \/ TokenUnavailable(c) \/ SendArchiveAdd(c)
               \/ ReceiveAnswer(c) \/ AnswerLost(c) \/ SettleCreation(c) \/ Conclude(c)
               \/ RetireSession(c)
        PROVE  WholeOK'
    BY <2>3, WholeSubmits
  <2> QED
    BY <1>2, <2>1, <2>2, <2>3, WholeRest DEF Publishing
<1>3. CASE Platform
  BY <1>3, WholePlatform
<1>4. CASE Reconciliation
  BY <1>4, WholeReconciles
<1>5. CASE Kill
  BY <1>5, WholeRest
<1> QED
  BY <1>1, <1>2, <1>3, <1>4, <1>5 DEF Next

(* When the desktop sends one upload of a job at a time, every archive the   *)
(* platform makes is of an upload that received every part of the video:     *)
(* what is recorded as completed was sent under the very token that          *)
(* create_archive submits, across failed uploads, retries, replaced sessions *)
(* and kills.                                                                *)
THEOREM ArchivesWhole == ASSUME SerialUploads PROVE Spec => []ArchiveIsWhole
<1>1. Init => WholeOK
  <2> SUFFICES ASSUME Init PROVE WholeOK
    OBVIOUS
  <2>1. /\ \A j \in Jobs : attempt[j] = None /\ parts[j] = {}
        /\ \A c \in Callers : caller[c].pc = "idle" /\ requests = {}
    BY DEF Init, Idle
  <2>2. \A n \in 1..Len(archives) : archives[n].job = None
    <3>1. Len(OldTitles) \in Nat
      BY BilibiliAssumption
    <3> QED
      BY <3>1 DEF Init, Archive
  <2>3. \A j \in Jobs : UploadOK(j)
    BY <2>1 DEF UploadOK, Token, Phase
  <2>4. \A c \in Callers : ~Uploads(c) /\ caller[c].pc \notin SubmitSteps \cup {"token"}
    BY <2>1 DEF Uploads, UploadSteps, SubmitSteps
  <2>5. requests = {}
    BY DEF Init
  <2> QED
    BY <2>2, <2>3, <2>4, <2>5 DEF WholeOK
<1>2. OnceInv /\ OnceInv' /\ WholeOK /\ [Next]_vars => WholeOK'
  BY WholeNext DEF OnceInv
<1>3. OnceInv /\ WholeOK => ArchiveIsWhole
  <2> SUFFICES ASSUME TypeOK, WholeOK, NEW n \in 1..Len(archives), archives[n].job # None
               PROVE  uploads[archives[n].token] =
                        1..(IF PartsOf[archives[n].job] = 0 THEN 1 ELSE PartsOf[archives[n].job])
    BY DEF ArchiveIsWhole, OnceInv
  <2>1. archives[n] \in Archives
    BY DEF TypeOK
  <2>2. PICK j \in Jobs : j = archives[n].job
    BY <2>1 DEF Archives
  <2>3. Past(j) /\ archives[n].token = Token(j) /\ UploadOK(j)
    BY <2>2 DEF WholeOK
  <2>4. uploads[Token(j)] = Needed(j)
    BY <2>3 DEF UploadOK, Past
  <2>5. CASE PartsOf[j] = 0
    BY <2>2, <2>3, <2>4, <2>5 DEF Needed
  <2>6. CASE PartsOf[j] # 0
    BY <2>2, <2>3, <2>4, <2>6 DEF Needed
  <2> QED
    BY <2>5, <2>6
<1> QED
  BY <1>1, <1>2, <1>3, Invariance, PTL DEF Spec

-----------------------------------------------------------------------------

(* An answer line of the worker, and how an operation of the App ends.       *)
Line == [kind : Calls, id : Ids, ok : BOOLEAN,
         digest : Digests \cup {None}, code : {"ok", "probe", "registry"}]
Result == [kind : {"imported", "deleted", "refused", "status", "lifecycle", "uncertain",
                   "compensation", "control plane"}, id : Ids]

(* The types of the library: a mapping is of an identity that has bytes, and *)
(* rows and identities are of imports that have begun.                       *)
LibraryTypeOK ==
    /\ bytes \in Seq(Digests \cup {None})
    /\ disk \in [Paths -> (1..Len(bytes)) \cup {None}]
    /\ rows \in UNION {[S -> Digests \cup {None}] : S \in SUBSET (1..imports)}
    /\ used \subseteq Ids /\ unsettled \subseteq Ids
    /\ op \in Operation \cup {None}
    /\ result \in Result \cup {None}
    /\ worker \in [up : BOOLEAN, active : Calls \cup {None}]
    /\ lines \in Seq(Line)
    /\ thread \in Thread \cup {None}
    /\ doc \in Document
    /\ \A id \in DOMAIN doc : doc[id].ident \in 1..Len(bytes)
    /\ scratch \in BOOLEAN
    /\ imports \in 0..MaxImports /\ started \in Nat /\ faults \in Nat

-----------------------------------------------------------------------------
(* The library: operations *)

ImportSteps == {"import", "find", "register", "recheck", "undo", "drop", "remap", "unmap"}
(* The call each step of an operation makes of the worker.                   *)
CallFor(step) ==
    CASE step \in {"import", "status"} -> [kind |-> step, id |-> op.id]
      [] step \in {"undo", "drop", "forget"} -> [kind |-> "forget", id |-> op.id]
      [] step = "remap" -> [kind |-> "import", id |-> op.other]
      [] step = "unmap" -> [kind |-> "forget", id |-> op.other]
      [] OTHER -> None

(* The mapping of a material leads to bytes of a digest.                     *)
Shown(id, digest) == id \in DOMAIN doc /\ bytes[doc[id].ident] = digest

(* An import: what it has learnt of its own mapping and of the row it found. *)
ImportOK ==
    /\ op.path \in Paths
    /\ op.step \in ImportSteps
    /\ op.step \notin {"undo", "recheck"} => op.id \notin DOMAIN rows
    /\ op.step = "recheck" => Owner(op.digest) \subseteq {op.id}
    /\ op.step = "recheck" /\ op.id \in DOMAIN rows => rows[op.id] = op.digest
    /\ op.step \in {"find", "register", "recheck"} => Shown(op.id, op.digest)
    /\ op.step = "register" => Owner(op.digest) = {}
    /\ IF op.step \in {"drop", "remap", "unmap"}
       THEN op.other \in DOMAIN rows /\ rows[op.other] = op.digest
       ELSE op.other = None

(* An operation holds the gate until it has ended, and waits for the call of *)
(* its own step.                                                             *)
OpOK == op # None =>
    /\ result = None
    /\ op.id \in 1..imports
    /\ op.waiting # None => op.waiting = CallFor(op.step)
    /\ op.kind = "import" => ImportOK
    /\ op.kind = "delete" => op.step \in {"status", "delete row", "forget"}
    /\ op.kind = "status" => op.step = "status"
    /\ op.step = "forget" => op.id \notin DOMAIN rows

-----------------------------------------------------------------------------
(* The library: the queue of answers *)

IsLine(x) == \E i \in 1..Len(lines) : lines[i] = x
Waiting == op # None /\ op.waiting # None
Late == op # None /\ op.step \notin {"import", "status"}

(* The answers that are not read. When no call waits, at most one is left    *)
(* over, of the call given up last, and the thread is done. A waiting call   *)
(* is answered after it.                                                     *)
QueueOK ==
    /\ \A i \in 1..Len(lines) : lines[i].id \in 1..imports
    /\ ~Waiting => lines = <<>> \/ (thread = None /\ Len(lines) = 1)
    /\ Waiting => \/ lines = <<>>
                  \/ Len(lines) = 1 /\ (thread = None \/ IsAnswer(thread))
                  \/ Len(lines) = 2 /\ thread = None /\ IsAnswer(lines[2])
    /\ Waiting /\ op.step # "status" /\ lines # <<>> /\ IsAnswer(lines[1]) =>
           Len(lines) = 1 /\ thread = None

(* What may still be told when an operation is past its first call.          *)
Owed(x) == \/ op.kind = "delete" /\ x.kind = "status" /\ x.id = op.id
           \/ op.waiting # None /\ IsAnswer(x)

(* What may still be told when an import has just begun: answers of other    *)
(* materials, or its own.                                                    *)
Fresh(x) == x.id # op.id \/ (op.waiting # None /\ IsAnswer(x))

(* Past the first call of an import nothing is outstanding but its own       *)
(* answer: one that came too late has been read and refused before.          *)
OwedOK ==
    /\ Late => /\ \A i \in 1..Len(lines) : Owed(lines[i])
               /\ thread # None => Owed(thread)
    /\ op # None /\ op.step = "import" =>
               /\ \A i \in 1..Len(lines) : Fresh(lines[i])
               /\ thread # None => Fresh(thread)

-----------------------------------------------------------------------------
(* The library: the thread *)

(* Materials whose mapping and row may differ: the last operation ended      *)
(* without certainty, or an import is about to compensate.                   *)
Doubt(id) == \/ id \in unsettled
             \/ /\ op # None /\ op.kind = "import"
                /\ \/ id = op.id
                   \/ op.step \in {"remap", "unmap"} /\ id = op.other

(* The file at the path is still the one that was approved. Identities are   *)
(* not reused, so it has been all along.                                     *)
LibrarySteady == disk[thread.path] = thread.approved

(* What the thread knows at each of its steps, when the file is steady.      *)
ThreadOK == thread # None =>
    /\ worker.up /\ worker.active # None
    /\ thread.id \in 1..imports
    /\ thread.kind = "status" => thread.step = "open"
    /\ thread.kind = "forget" =>
         \/ thread.step = "open"
         \/ thread.step = "replace" /\ thread.answer = "forgotten"
    /\ thread.kind = "import" =>
         /\ thread.path \in Paths
         /\ Doubt(thread.id)
         /\ thread.step # "open" => thread.approved \in 1..Len(bytes)
         /\ thread.step = "replace" => thread.answer \in {"registered", "taken back"}
    /\ thread.step \notin {"open", "replace"} => thread.entries = doc
    /\ thread.step \in {"hold", "register"} /\ LibrarySteady => thread.digest = bytes[thread.approved]
    /\ thread.step = "replace" =>
         IF thread.answer = "registered"
         THEN \E entry \in [path : Paths, ident : 1..Len(bytes)] :
                /\ thread.entries = Noted(doc, thread.id, entry)
                /\ LibrarySteady => entry.ident = thread.approved /\ thread.digest = bytes[entry.ident]
         ELSE thread.entries = Forgotten(doc, thread.id)
    /\ thread.step = "confirm" => thread.id \in DOMAIN doc
    /\ thread.step = "confirm" /\ LibrarySteady =>
         doc[thread.id].ident = thread.approved /\ thread.digest = bytes[thread.approved]

(* An answer that says yes is true of the document.                          *)
LineOK(line) ==
    /\ line.kind = "import" /\ line.ok => Shown(line.id, line.digest)
    /\ line.kind = "forget" /\ line.ok => line.id \notin DOMAIN doc

(* A mapping and a row of the same material agree unless they are in doubt.  *)
RowsOK == \A id \in DOMAIN rows \cap DOMAIN doc : ~Doubt(id) => Shown(id, rows[id])

(* A result that says yes has no answer outstanding.                         *)
ResultOK == result # None /\ result.kind \in {"imported", "deleted"} =>
    lines = <<>> /\ thread = None

(* The inductive invariant of the library.                                   *)
LibraryInv ==
    /\ LibraryTypeOK /\ OpOK /\ QueueOK /\ OwedOK /\ ThreadOK
    /\ \A i \in 1..Len(lines) : LineOK(lines[i])
    /\ DOMAIN doc \subseteq 1..imports
    /\ RowsOK /\ ResultOK /\ OutcomeIsTrue
-----------------------------------------------------------------------------
(* Partial functions and queues *)

(* Noting an entry in a partial function changes that entry alone.           *)
LEMMA NotedIs ==
    ASSUME NEW f, NEW id, NEW x
    PROVE  /\ DOMAIN Noted(f, id, x) = DOMAIN f \cup {id}
           /\ Noted(f, id, x)[id] = x
           /\ \A i \in DOMAIN f : i # id => Noted(f, id, x)[i] = f[i]
BY DEF Noted

(* Forgetting an entry of a partial function leaves the others.              *)
LEMMA ForgottenIs ==
    ASSUME NEW f, NEW id
    PROVE  /\ DOMAIN Forgotten(f, id) = DOMAIN f \ {id}
           /\ \A i \in DOMAIN f : i # id => Forgotten(f, id)[i] = f[i]
BY DEF Forgotten

(* Noting an entry keeps the type of a partial function.                     *)
LEMMA NotedType ==
    ASSUME NEW D, NEW V, NEW f \in UNION {[S -> V] : S \in SUBSET D}, NEW id \in D, NEW x \in V
    PROVE  Noted(f, id, x) \in UNION {[S -> V] : S \in SUBSET D}
<1>1. PICK S \in SUBSET D : f \in [S -> V]
  OBVIOUS
<1>2. Noted(f, id, x) \in [S \cup {id} -> V] /\ S \cup {id} \in SUBSET D
  BY <1>1 DEF Noted
<1> QED
  BY <1>2

(* Forgetting an entry keeps the type of a partial function.                 *)
LEMMA ForgottenType ==
    ASSUME NEW D, NEW V, NEW f \in UNION {[S -> V] : S \in SUBSET D}, NEW id
    PROVE  Forgotten(f, id) \in UNION {[S -> V] : S \in SUBSET D}
<1>1. PICK S \in SUBSET D : f \in [S -> V]
  OBVIOUS
<1>2. Forgotten(f, id) \in [S \ {id} -> V] /\ S \ {id} \in SUBSET D
  BY <1>1 DEF Forgotten
<1> QED
  BY <1>2

(* A line written at the end of the queue.                                   *)
LEMMA Added ==
    ASSUME NEW T, NEW s \in Seq(T), NEW e \in T
    PROVE  /\ Append(s, e) \in Seq(T) /\ Len(Append(s, e)) = Len(s) + 1
           /\ \A i \in 1..Len(s) : Append(s, e)[i] = s[i]
           /\ Append(s, e)[Len(s) + 1] = e
OBVIOUS

(* A line read from the front of the queue.                                  *)
LEMMA Shifted ==
    ASSUME NEW T, NEW s \in Seq(T), s # <<>>
    PROVE  /\ Tail(s) \in Seq(T) /\ Head(s) \in T /\ Head(s) = s[1] /\ 1 \in 1..Len(s)
           /\ Len(Tail(s)) = Len(s) - 1
           /\ \A i \in 1..Len(Tail(s)) : i + 1 \in 1..Len(s) /\ Tail(s)[i] = s[i + 1]
OBVIOUS

(* Nothing is neither a number nor a record.                                 *)
LEMMA NoneIsNoRecord == None \notin Nat /\ None \notin Command /\ None \notin Operation
                        /\ None \notin Thread /\ None \notin Calls /\ Ids \subseteq Nat
BY LibraryAssumption DEF Ids

-----------------------------------------------------------------------------
(* What the parts of the invariant say together *)

(* While the thread handles a call, the lines before its answer are about    *)
(* other materials, or are of a status call.                                 *)
LEMMA Apart ==
    ASSUME LibraryInv, thread # None, thread.kind # "status", NEW i \in 1..Len(lines)
    PROVE  lines[i].kind = "status" \/ lines[i].id # thread.id
<1>1. Waiting /\ Len(lines) = 1 /\ IsAnswer(thread) /\ i = 1 /\ lines # <<>>
  <2>1. lines # <<>> /\ Len(lines) \in Nat
    BY DEF LibraryInv, LibraryTypeOK
  <2> QED
    BY <2>1 DEF LibraryInv, QueueOK
<1>2. op \in Operation /\ op.waiting = CallFor(op.step) /\ op.waiting # None
  BY <1>1 DEF LibraryInv, LibraryTypeOK, OpOK, Waiting
<1>3. CASE op.step = "status"
  BY <1>1, <1>2, <1>3 DEF CallFor, IsAnswer
<1>4. CASE op.step # "status"
  <2>1. ~IsAnswer(lines[1])
    BY <1>1, <1>4 DEF LibraryInv, QueueOK
  <2>2. CASE op.step = "import"
    <3>1. Fresh(lines[1]) /\ thread.id = op.id
      <4>1. Fresh(lines[1])
        BY <1>1, <2>2 DEF LibraryInv, OwedOK, Waiting
      <4>2. op.waiting.id = op.id
        BY <1>2, <2>2 DEF CallFor
      <4> QED
        BY <4>1, <4>2, <1>1 DEF IsAnswer
    <3> QED
      BY <1>1, <2>1, <3>1 DEF Fresh
  <2>3. CASE op.step # "import"
    <3>1. Owed(lines[1])
      BY <1>1, <1>4, <2>3 DEF LibraryInv, OwedOK, Waiting, Late
    <3> QED
      BY <1>1, <2>1, <3>1 DEF Owed
  <2> QED
    BY <2>2, <2>3
<1> QED
  BY <1>3, <1>4

(* An import that does not wait for the worker, past its first call, has     *)
(* nothing outstanding.                                                      *)
LEMMA AtRest ==
    ASSUME LibraryInv, op # None, op.kind = "import", op.step # "import", op.waiting = None
    PROVE  lines = <<>> /\ thread = None
<1>1. Late
  BY DEF LibraryInv, OpOK, ImportOK, Late, ImportSteps
<1>2. thread = None
  BY <1>1 DEF LibraryInv, OwedOK, Owed
<1>3. Len(lines) = 0
  <2>1. Len(lines) \in Nat /\ (Len(lines) # 0 => 1 \in 1..Len(lines))
    BY DEF LibraryInv, LibraryTypeOK
  <2> QED
    BY <1>1, <2>1 DEF LibraryInv, OwedOK, Owed
<1> QED
  BY <1>2, <1>3 DEF LibraryInv, LibraryTypeOK

-----------------------------------------------------------------------------
(* The library: the thread *)

(* The thread goes on to another step of its call, with or without           *)
(* publishing the document.                                                  *)
LEMMA ThreadGoes ==
    ASSUME LibraryInv, thread # None, thread' \in Thread, thread'.kind = thread.kind,
           thread'.id = thread.id, UNCHANGED <<lines, worker, disk, bytes, rows, used, appVars>>,
           scratch' \in BOOLEAN, faults' \in Nat,
           doc' \in Document, DOMAIN doc' \subseteq 1..imports,
           \A id \in DOMAIN doc' : doc'[id].ident \in 1..Len(bytes),
           OpOK', RowsOK', OutcomeIsTrue', ThreadOK',
           \A line \in Line : IsLine(line) => LineOK(line)'
    PROVE  LibraryInv'
<1> USE DEF appVars
<1>1. LibraryTypeOK'
  BY DEF LibraryInv, LibraryTypeOK
<1>2. thread' # None
  BY NoneIsNoRecord
<1>3. QueueOK'
  BY <1>2 DEF LibraryInv, QueueOK, Waiting, IsAnswer
<1>4. OwedOK'
  BY <1>2 DEF LibraryInv, OwedOK, Late, Owed, Fresh, IsAnswer
<1>5. ResultOK'
  BY DEF LibraryInv, ResultOK
<1>6. \A i \in 1..Len(lines') : LineOK(lines[i])'
  <2> SUFFICES ASSUME NEW i \in 1..Len(lines) PROVE LineOK(lines[i])'
    OBVIOUS
  <2>1. lines[i] \in Line /\ IsLine(lines[i]) /\ lines'[i] = lines[i]
    BY DEF LibraryInv, LibraryTypeOK, IsLine
  <2>2. PICK line \in Line : line = lines[i]
    BY <2>1
  <2>3. LineOK(line)' /\ line = lines'[i]
    BY <2>1, <2>2
  <2> QED
    BY <2>3 DEF LineOK, Shown
<1> QED
  BY <1>1, <1>3, <1>4, <1>5, <1>6 DEF LibraryInv

(* The thread answers its call and is done.                                  *)
LEMMA ThreadReplies ==
    ASSUME LibraryInv, thread # None, NEW r \in Line, r.kind = thread.kind, r.id = thread.id,
           LineOK(r)', thread' = None, lines' = Append(lines, r),
           worker' \in [up : BOOLEAN, active : Calls \cup {None}],
           UNCHANGED <<disk, bytes, rows, used, appVars>>,
           scratch' \in BOOLEAN, faults' \in Nat,
           doc' \in Document, DOMAIN doc' \subseteq 1..imports,
           \A id \in DOMAIN doc' : doc'[id].ident \in 1..Len(bytes),
           OpOK', RowsOK', OutcomeIsTrue',
           \A line \in Line : IsLine(line) => LineOK(line)'
    PROVE  LibraryInv'
<1> USE DEF appVars
<1>0. /\ lines \in Seq(Line) /\ lines' \in Seq(Line) /\ Len(lines') = Len(lines) + 1
      /\ Len(lines) \in Nat /\ lines' # <<>>
      /\ \A i \in 1..Len(lines) : lines'[i] = lines[i]
      /\ lines'[Len(lines) + 1] = r
  <2>1. lines \in Seq(Line)
    BY DEF LibraryInv, LibraryTypeOK
  <2>2. /\ Append(lines, r) \in Seq(Line) /\ Len(Append(lines, r)) = Len(lines) + 1
        /\ \A i \in 1..Len(lines) : Append(lines, r)[i] = lines[i]
        /\ Append(lines, r)[Len(lines) + 1] = r
    BY <2>1, Added
  <2> QED
    BY <2>1, <2>2
<1>1. LibraryTypeOK'
  <2>1. lines' \in Seq(Line)
    BY <1>0
  <2> HIDE <1>0
  <2> QED
    BY <2>1 DEF LibraryInv, LibraryTypeOK
<1>2. /\ \A i \in 1..Len(lines') : i \in 1..Len(lines) \/ i = Len(lines) + 1
      /\ \A i \in 1..Len(lines') : lines'[i] = r \/ (i \in 1..Len(lines) /\ lines'[i] = lines[i])
  BY <1>0
<1>3. QueueOK'
  <2>1. \A i \in 1..Len(lines') : lines'[i].id \in 1..imports
    BY <1>2 DEF LibraryInv, QueueOK, ThreadOK
  <2>2. Len(lines) = 0 \/ (Len(lines) = 1 /\ Waiting /\ IsAnswer(thread) /\ lines # <<>>)
    BY <1>0 DEF LibraryInv, QueueOK
  <2>3. IsAnswer(r) <=> IsAnswer(thread)
    BY DEF IsAnswer
  <2>4. CASE Len(lines) = 0
    BY <2>1, <2>4, <1>0 DEF QueueOK, Waiting, IsAnswer
  <2>5. CASE Len(lines) = 1 /\ Waiting /\ IsAnswer(thread) /\ lines # <<>>
    <3>1. op.step # "status" => ~IsAnswer(lines[1])
      BY <2>5 DEF LibraryInv, QueueOK
    <3>2. lines'[1] = lines[1] /\ lines'[2] = r /\ Len(lines') = 2
      BY <1>0, <2>5
    <3>3. Waiting' /\ op' = op /\ thread' = None
      BY <2>5 DEF Waiting
    <3>4. op'.step # "status" =>
             ~(lines'[1].kind = op'.waiting.kind /\ lines'[1].id = op'.waiting.id)
      BY <3>1, <3>2, <3>3 DEF IsAnswer
    <3>5. lines'[2].kind = op'.waiting.kind /\ lines'[2].id = op'.waiting.id
      BY <3>2, <3>3, <2>3, <2>5 DEF IsAnswer
    <3> QED
      BY <2>1, <3>2, <3>3, <3>4, <3>5 DEF QueueOK, IsAnswer
  <2> QED
    BY <2>2, <2>4, <2>5
<1>4. OwedOK'
  BY <1>2 DEF LibraryInv, OwedOK, Late, Owed, Fresh, IsAnswer
<1>5. ResultOK' /\ ThreadOK'
  BY DEF LibraryInv, ResultOK, ThreadOK
<1>6. \A i \in 1..Len(lines') : LineOK(lines[i])'
  <2> SUFFICES ASSUME NEW i \in 1..Len(lines') PROVE LineOK(lines[i])'
    OBVIOUS
  <2>1. CASE lines'[i] = r
    BY <2>1 DEF LineOK, Shown
  <2>2. CASE i \in 1..Len(lines) /\ lines'[i] = lines[i]
    <3>1. PICK line \in Line : line = lines[i]
      BY <2>2, <1>0
    <3>2. LineOK(line)' /\ line = lines'[i]
      BY <2>2, <3>1 DEF IsLine
    <3> QED
      BY <3>2 DEF LineOK, Shown
  <2> QED
    BY <1>2, <2>1, <2>2
<1> QED
  BY <1>1, <1>3, <1>4, <1>5, <1>6 DEF LibraryInv

(* What is said of the document holds as long as it is not written.          *)
LEMMA DocRests ==
    ASSUME LibraryInv, UNCHANGED <<bytes, rows, used, appVars, doc>>
    PROVE  /\ doc' \in Document /\ DOMAIN doc' \subseteq 1..imports
           /\ \A id \in DOMAIN doc' : doc'[id].ident \in 1..Len(bytes)
           /\ OpOK' /\ RowsOK' /\ OutcomeIsTrue'
           /\ \A line \in Line : IsLine(line) => LineOK(line)'
<1> USE DEF appVars
<1>1. OpOK'
  BY DEF LibraryInv, OpOK, ImportOK, Shown, Owner, CallFor
<1>2. RowsOK' /\ OutcomeIsTrue'
  BY DEF LibraryInv, RowsOK, Doubt, Shown, OutcomeIsTrue
<1>3. \A line \in Line : IsLine(line) => LineOK(line)'
  BY DEF LibraryInv, IsLine, LineOK, Shown
<1> QED
  BY <1>1, <1>2, <1>3 DEF LibraryInv, LibraryTypeOK

(* Writing the entry of the material that the thread handles spoils nothing  *)
(* said of the others.                                                       *)
LEMMA DocChanges ==
    ASSUME LibraryInv, UNCHANGED <<bytes, rows, used, appVars>>,
           thread # None, thread.kind # "status",
           DOMAIN doc' \ {thread.id} = DOMAIN doc \ {thread.id},
           \A id \in DOMAIN doc \ {thread.id} : doc'[id] = doc[id],
           thread.kind = "forget" => thread.id \notin DOMAIN doc'
    PROVE  /\ OpOK' /\ RowsOK' /\ OutcomeIsTrue'
           /\ \A line \in Line : IsLine(line) => LineOK(line)'
<1> USE DEF appVars
<1>1. OpOK'
  <2>1. op # None /\ op.kind = "import" /\ op.step \in {"find", "register", "recheck"} => FALSE
    <3> SUFFICES ASSUME op # None, op.kind = "import", op.step \in {"find", "register", "recheck"}
                 PROVE  FALSE
      OBVIOUS
    <3>1. op.waiting = None
      BY DEF LibraryInv, OpOK, CallFor
    <3> QED
      BY <3>1, AtRest
  <2> QED
    BY <2>1 DEF LibraryInv, OpOK, ImportOK, Shown, Owner, CallFor
<1>2. RowsOK'
  <2>1. thread.kind = "import" => Doubt(thread.id)
    BY DEF LibraryInv, ThreadOK
  <2>2. thread.kind \in {"import", "forget"}
    BY DEF LibraryInv, LibraryTypeOK, Thread, Calls
  <2>3. ASSUME NEW id \in DOMAIN rows', id \in DOMAIN doc', ~Doubt(id)'
        PROVE  bytes'[doc'[id].ident] = rows'[id]
    <3>1. ~Doubt(id) /\ id # thread.id
      BY <2>1, <2>2, <2>3 DEF Doubt
    <3>2. Shown(id, rows[id])
      BY <2>3, <3>1 DEF LibraryInv, RowsOK
    <3> QED
      BY <2>3, <3>1, <3>2 DEF Shown
  <2> QED
    BY <2>3 DEF RowsOK, Shown, Doubt
<1>3. OutcomeIsTrue'
  BY DEF LibraryInv, OutcomeIsTrue, ResultOK
<1>4. \A line \in Line : IsLine(line) => LineOK(line)'
  <2> SUFFICES ASSUME NEW line \in Line, NEW i \in 1..Len(lines), lines[i] = line PROVE LineOK(line)'
    BY DEF IsLine
  <2>1. LineOK(line) /\ (line.kind = "status" \/ line.id # thread.id)
    BY Apart DEF LibraryInv
  <2> QED
    BY <2>1 DEF LineOK, Shown
<1> QED
  BY <1>1, <1>2, <1>3, <1>4

(* A step of the thread that writes nothing.                                 *)
LEMMA Moves ==
    ASSUME LibraryInv, thread # None, NEW t, Goes(t), ThreadOnly, UNCHANGED doc, NoFault,
           scratch' \in BOOLEAN, t \in Thread, t.kind = thread.kind, t.id = thread.id, ThreadOK'
    PROVE  LibraryInv'
<1>1. UNCHANGED <<lines, worker, disk, bytes, rows, used, appVars, doc>> /\ thread' = t
  BY DEF Goes, ThreadOnly
<1>2. faults' \in Nat
  BY DEF NoFault, LibraryInv, LibraryTypeOK
<1>3. /\ doc' \in Document /\ DOMAIN doc' \subseteq 1..imports
      /\ \A id \in DOMAIN doc' : doc'[id].ident \in 1..Len(bytes)
      /\ OpOK' /\ RowsOK' /\ OutcomeIsTrue'
      /\ \A line \in Line : IsLine(line) => LineOK(line)'
  BY <1>1, DocRests
<1> QED
  BY <1>1, <1>2, <1>3, ThreadGoes

(* The answer of the thread, as a line.                                      *)
LEMMA Replied ==
    ASSUME LibraryInv, thread # None, NEW ok \in BOOLEAN, NEW digest \in Digests \cup {None},
           NEW code \in {"ok", "probe", "registry"}, ReplyCode(ok, digest, code)
    PROVE  \E r \in Line :
             /\ r.kind = thread.kind /\ r.id = thread.id /\ r.ok = ok /\ r.digest = digest
             /\ lines' = Append(lines, r) /\ thread' = None
             /\ worker' \in [up : BOOLEAN, active : Calls \cup {None}]
<1> DEFINE r == [kind |-> thread.kind, id |-> thread.id, ok |-> ok, digest |-> digest, code |-> code]
<1>1. thread \in Thread /\ worker \in [up : BOOLEAN, active : Calls \cup {None}]
  BY DEF LibraryInv, LibraryTypeOK
<1>2. r \in Line
  BY <1>1 DEF Line, Thread
<1>3. worker' \in [up : BOOLEAN, active : Calls \cup {None}]
  BY <1>1 DEF ReplyCode
<1>4. lines' = Append(lines, r) /\ thread' = None
  BY DEF ReplyCode
<1> QED
  BY <1>2, <1>3, <1>4

(* The thread answers: yes only when the document bears it out.              *)
LEMMA LineAnswers ==
    ASSUME LibraryInv, thread # None, NEW ok \in BOOLEAN, NEW digest \in Digests \cup {None},
           NEW code \in {"ok", "probe", "registry"}, ReplyCode(ok, digest, code), ThreadOnly,
           UNCHANGED doc, scratch' \in BOOLEAN, faults' \in Nat,
           thread.kind = "import" /\ ok => Shown(thread.id, digest),
           thread.kind = "forget" /\ ok => thread.id \notin DOMAIN doc
    PROVE  LibraryInv'
<1>1. UNCHANGED <<disk, bytes, rows, used, appVars, doc>>
  BY DEF ThreadOnly
<1>2. /\ doc' \in Document /\ DOMAIN doc' \subseteq 1..imports
      /\ \A id \in DOMAIN doc' : doc'[id].ident \in 1..Len(bytes)
      /\ OpOK' /\ RowsOK' /\ OutcomeIsTrue'
      /\ \A line \in Line : IsLine(line) => LineOK(line)'
  BY <1>1, DocRests
<1>3. PICK r \in Line :
             /\ r.kind = thread.kind /\ r.id = thread.id /\ r.ok = ok /\ r.digest = digest
             /\ lines' = Append(lines, r) /\ thread' = None
             /\ worker' \in [up : BOOLEAN, active : Calls \cup {None}]
  BY Replied
<1>4. LineOK(r)'
  BY <1>1, <1>3 DEF LineOK, Shown
<1> QED
  BY <1>1, <1>2, <1>3, <1>4, ThreadReplies

(* The types of the thread and of what it reads.                             *)
LEMMA ThreadIs ==
    ASSUME LibraryInv, thread # None
    PROVE  /\ thread \in Thread /\ ThreadOK
           /\ thread.kind \in {"import", "status", "forget"}
           /\ bytes \in Seq(Digests \cup {None}) /\ disk \in [Paths -> (1..Len(bytes)) \cup {None}]
           /\ doc \in Document /\ faults \in Nat /\ None \notin Nat
           /\ DOMAIN doc \subseteq 1..imports
           /\ \A id \in DOMAIN doc : doc[id].ident \in 1..Len(bytes)
           /\ thread.kind = "import" =>
                thread.path \in Paths /\ File \in (1..Len(bytes)) \cup {None}
                /\ File \in Nat \cup {None}
<1>1. thread \in Thread /\ ThreadOK
  BY DEF LibraryInv, LibraryTypeOK
<1>2. thread.kind \in {"import", "status", "forget"}
  BY <1>1 DEF Thread, Calls
<1>3. /\ bytes \in Seq(Digests \cup {None}) /\ disk \in [Paths -> (1..Len(bytes)) \cup {None}]
      /\ doc \in Document /\ faults \in Nat /\ None \notin Nat
      /\ DOMAIN doc \subseteq 1..imports
      /\ \A id \in DOMAIN doc : doc[id].ident \in 1..Len(bytes)
  BY NoneIsNoRecord DEF LibraryInv, LibraryTypeOK
<1>4. thread.kind = "import" => thread.path \in Paths /\ File \in (1..Len(bytes)) \cup {None}
                /\ File \in Nat \cup {None}
  <2>1. Len(bytes) \in Nat /\ 1..Len(bytes) \subseteq Nat
    BY <1>3
  <2> QED
    BY <1>1, <1>3, <2>1 DEF ThreadOK, File
<1> QED
  BY <1>1, <1>2, <1>3, <1>4

(* The thread reads the document and stats the file, or forgets an entry of  *)
(* its copy.                                                                 *)
LEMMA ThreadOpensHolds == LibraryInv /\ ThreadOpens => LibraryInv'
<1> SUFFICES ASSUME LibraryInv, ThreadOpens PROVE LibraryInv'
  OBVIOUS
<1>1. thread # None /\ thread.step = "open" /\ ThreadOnly /\ NoFault /\ UNCHANGED doc
  BY DEF ThreadOpens, At
<1>2. /\ thread \in Thread /\ ThreadOK /\ thread.kind \in {"import", "status", "forget"}
      /\ doc \in Document /\ faults' \in Nat /\ None \notin Nat
      /\ thread.kind = "import" =>
                thread.path \in Paths /\ File \in (1..Len(bytes)) \cup {None}
                /\ File \in Nat \cup {None}
  BY <1>1, ThreadIs DEF NoFault
<1>3. CASE thread.kind = "import" /\ File = None
  <2>1. ReplyCode(FALSE, None, "probe") /\ scratch' = FALSE
    BY <1>1, <1>3 DEF ThreadOpens, Reply
  <2> QED
    BY <1>1, <1>2, <1>3, <2>1, LineAnswers
<1>4. CASE thread.kind = "import" /\ File # None
  <2> DEFINE t == [thread EXCEPT !.step = "probe", !.entries = doc, !.approved = File]
  <2>1. Goes(t) /\ scratch' = FALSE
    BY <1>1, <1>4 DEF ThreadOpens
  <2>2. /\ t \in Thread /\ t.kind = thread.kind /\ t.id = thread.id /\ t.step = "probe"
        /\ t.entries = doc /\ t.approved = File /\ t.path = thread.path
    BY <1>2, <1>4 DEF Thread
  <2> HIDE DEF t
  <2>3. ThreadOK'
    BY <1>1, <1>2, <1>4, <2>1, <2>2 DEF ThreadOK, Goes, ThreadOnly, appVars, Doubt
  <2> QED
    BY <1>1, <2>1, <2>2, <2>3, Moves
<1>5. CASE thread.kind = "forget" /\ thread.id \in DOMAIN doc
  <2> DEFINE t == [thread EXCEPT !.step = "replace", !.entries = Forgotten(doc, thread.id),
                                 !.answer = "forgotten"]
  <2>1. Goes(t) /\ scratch' = TRUE
    BY <1>1, <1>5 DEF ThreadOpens, Writes
  <2>2. Forgotten(doc, thread.id) \in Document
    BY <1>2, ForgottenType DEF Document
  <2>3. /\ t \in Thread /\ t.kind = thread.kind /\ t.id = thread.id /\ t.step = "replace"
        /\ t.entries = Forgotten(doc, thread.id) /\ t.answer = "forgotten"
    BY <1>2, <1>5, <2>2 DEF Thread
  <2> HIDE DEF t
  <2>4. ThreadOK'
    BY <1>1, <1>2, <1>5, <2>1, <2>3 DEF ThreadOK, Goes, ThreadOnly, appVars, Forgotten
  <2> QED
    BY <1>1, <2>1, <2>3, <2>4, Moves
<1>6. CASE thread.kind = "forget" /\ thread.id \notin DOMAIN doc
  <2>1. ReplyCode(TRUE, None, "ok") /\ scratch' = FALSE
    BY <1>1, <1>6 DEF ThreadOpens, Reply
  <2> QED
    BY <1>1, <1>2, <1>6, <2>1, LineAnswers
<1>7. CASE thread.kind = "status"
  <2>1. ReplyCode(TRUE, None, "ok") /\ scratch' = FALSE
    BY <1>1, <1>7 DEF ThreadOpens, Reply
  <2> QED
    BY <1>1, <1>2, <1>7, <2>1, LineAnswers
<1> QED
  BY <1>2, <1>3, <1>4, <1>5, <1>6, <1>7

(* The thread probes the file.                                               *)
LEMMA ThreadMeasuresHolds == LibraryInv /\ ThreadMeasures => LibraryInv'
<1> SUFFICES ASSUME LibraryInv, ThreadMeasures PROVE LibraryInv'
  OBVIOUS
<1>1. thread # None /\ thread.step = "probe" /\ ThreadOnly /\ NoFault /\ UNCHANGED <<doc, scratch>>
  BY DEF ThreadMeasures, ThreadAt, At
<1>2. /\ thread \in Thread /\ ThreadOK /\ thread.kind = "import" /\ faults' \in Nat
      /\ scratch' \in BOOLEAN /\ None \notin Nat
      /\ thread.path \in Paths /\ File \in (1..Len(bytes)) \cup {None}
                /\ File \in Nat \cup {None}
  <2>1. thread.kind = "import"
    BY <1>1, ThreadIs DEF ThreadOK
  <2> QED
    BY <1>1, <2>1, ThreadIs DEF NoFault, LibraryInv, LibraryTypeOK
<1>3. CASE ReplyCode(FALSE, None, "probe")
  BY <1>1, <1>2, <1>3, LineAnswers
<1>4. CASE File # None /\ Goes([thread EXCEPT !.step = "digest", !.before = File])
  <2> DEFINE t == [thread EXCEPT !.step = "digest", !.before = File]
  <2>1. Goes(t)
    BY <1>4
  <2>2. /\ t \in Thread /\ t.kind = thread.kind /\ t.id = thread.id /\ t.step = "digest"
        /\ t.entries = thread.entries /\ t.approved = thread.approved /\ t.path = thread.path
    BY <1>2, <1>4 DEF Thread
  <2> HIDE DEF t
  <2>3. ThreadOK'
    BY <1>1, <1>2, <2>1, <2>2 DEF ThreadOK, Goes, ThreadOnly, appVars, Doubt
  <2> QED
    BY <1>1, <1>2, <2>1, <2>2, <2>3, Moves
<1> QED
  BY <1>3, <1>4 DEF ThreadMeasures, Reply

(* The thread digests the bytes it finds at the path.                        *)
LEMMA ThreadDigestsHolds == LibraryInv /\ ThreadDigests => LibraryInv'
<1> SUFFICES ASSUME LibraryInv, ThreadDigests PROVE LibraryInv'
  OBVIOUS
<1>1. thread # None /\ thread.step = "digest" /\ ThreadOnly /\ NoFault /\ UNCHANGED <<doc, scratch>>
  BY DEF ThreadDigests, ThreadAt, At
<1>2. /\ thread \in Thread /\ ThreadOK /\ thread.kind = "import" /\ faults' \in Nat
      /\ scratch' \in BOOLEAN /\ None \notin Nat /\ bytes \in Seq(Digests \cup {None})
      /\ thread.path \in Paths /\ File \in (1..Len(bytes)) \cup {None}
                /\ File \in Nat \cup {None}
  <2>1. thread.kind = "import"
    BY <1>1, ThreadIs DEF ThreadOK
  <2> QED
    BY <1>1, <2>1, ThreadIs DEF NoFault, LibraryInv, LibraryTypeOK
<1>3. CASE File = None
  <2>1. ReplyCode(FALSE, None, "probe")
    BY <1>3 DEF ThreadDigests, Reply
  <2> QED
    BY <1>1, <1>2, <2>1, LineAnswers
<1>4. CASE File # None
  <2> DEFINE t == [thread EXCEPT !.step = "hold", !.digest = bytes[File]]
  <2>1. Goes(t)
    BY <1>4 DEF ThreadDigests
  <2>2. bytes[File] \in Digests \cup {None}
    BY <1>2, <1>4
  <2>3. /\ t \in Thread /\ t.kind = thread.kind /\ t.id = thread.id /\ t.step = "hold"
        /\ t.entries = thread.entries /\ t.approved = thread.approved /\ t.path = thread.path
        /\ t.digest = bytes[File]
    BY <1>2, <1>4, <2>2 DEF Thread
  <2> HIDE DEF t
  <2>4. ThreadOK'
    BY <1>1, <1>2, <2>1, <2>3 DEF ThreadOK, Goes, ThreadOnly, appVars, Doubt, LibrarySteady, File
  <2> QED
    BY <1>1, <1>2, <2>1, <2>3, <2>4, Moves
<1> QED
  BY <1>3, <1>4

(* The thread compares the file with the one it approved.                    *)
LEMMA ThreadHoldsHolds == LibraryInv /\ ThreadHolds => LibraryInv'
<1> SUFFICES ASSUME LibraryInv, ThreadHolds PROVE LibraryInv'
  OBVIOUS
<1>1. thread # None /\ thread.step = "hold" /\ ThreadOnly /\ NoFault /\ UNCHANGED <<doc, scratch>>
  BY DEF ThreadHolds, ThreadAt, At
<1>2. /\ thread \in Thread /\ ThreadOK /\ thread.kind = "import" /\ faults' \in Nat
      /\ scratch' \in BOOLEAN
  <2>1. thread.kind = "import"
    BY <1>1, ThreadIs DEF ThreadOK
  <2> QED
    BY <1>1, <2>1, ThreadIs DEF NoFault, LibraryInv, LibraryTypeOK
<1>3. CASE ~HeldStill
  <2>1. ReplyCode(FALSE, None, "probe")
    BY <1>3 DEF ThreadHolds, Reply
  <2> QED
    BY <1>1, <1>2, <2>1, LineAnswers
<1>4. CASE HeldStill
  <2> DEFINE t == [thread EXCEPT !.step = "register"]
  <2>1. Goes(t)
    BY <1>4 DEF ThreadHolds
  <2>2. /\ t \in Thread /\ t.kind = thread.kind /\ t.id = thread.id /\ t.step = "register"
        /\ t.entries = thread.entries /\ t.approved = thread.approved /\ t.path = thread.path
        /\ t.digest = thread.digest
    BY <1>2 DEF Thread
  <2> HIDE DEF t
  <2>3. ThreadOK'
    BY <1>1, <1>2, <2>1, <2>2 DEF ThreadOK, Goes, ThreadOnly, appVars, Doubt, LibrarySteady
  <2> QED
    BY <1>1, <1>2, <2>1, <2>2, <2>3, Moves
<1> QED
  BY <1>3, <1>4

(* The thread notes the file it finds at the path in its copy of the         *)
(* document.                                                                 *)
LEMMA ThreadRegistersHolds == LibraryInv /\ ThreadRegisters => LibraryInv'
<1> SUFFICES ASSUME LibraryInv, ThreadRegisters PROVE LibraryInv'
  OBVIOUS
<1>1. thread # None /\ thread.step = "register" /\ ThreadOnly /\ NoFault /\ UNCHANGED doc
  BY DEF ThreadRegisters, At
<1>2. /\ thread \in Thread /\ ThreadOK /\ thread.kind = "import" /\ faults' \in Nat
      /\ None \notin Nat /\ doc \in Document /\ bytes \in Seq(Digests \cup {None})
      /\ disk \in [Paths -> (1..Len(bytes)) \cup {None}]
      /\ thread.path \in Paths /\ File \in (1..Len(bytes)) \cup {None} /\ File \in Nat \cup {None}
  <2>1. thread.kind = "import"
    BY <1>1, ThreadIs DEF ThreadOK
  <2> QED
    BY <1>1, <2>1, ThreadIs DEF NoFault
<1>3. CASE File = None
  <2>1. ReplyCode(FALSE, None, "probe") /\ UNCHANGED scratch
    BY <1>3 DEF ThreadRegisters, Reply
  <2>2. scratch' \in BOOLEAN
    BY <2>1 DEF LibraryInv, LibraryTypeOK
  <2> QED
    BY <1>1, <1>2, <2>1, <2>2, LineAnswers
<1>4. CASE File # None
  <2> DEFINE e == [path |-> thread.path, ident |-> File]
             n == Noted(doc, thread.id, e)
             t == [thread EXCEPT !.step = "replace", !.entries = n, !.answer = "registered"]
  <2>0. thread.entries = doc
    BY <1>1, <1>2 DEF ThreadOK
  <2>1. Goes(t) /\ scratch' = TRUE
    BY <1>4, <2>0 DEF ThreadRegisters, Writes
  <2>2. e \in [path : Paths, ident : Nat] /\ e \in [path : Paths, ident : 1..Len(bytes)]
        /\ e.ident = File
    BY <1>2, <1>4
  <2> HIDE DEF e
  <2>3. n \in Document
    <3>1. thread.id \in Ids
      BY <1>2 DEF Thread
    <3> QED
      BY <1>2, <2>2, <3>1, NotedType DEF Document
  <2> HIDE DEF n
  <2>4. /\ t \in Thread /\ t.kind = thread.kind /\ t.id = thread.id /\ t.step = "replace"
        /\ t.entries = n /\ t.approved = thread.approved /\ t.path = thread.path
        /\ t.digest = thread.digest /\ t.answer = "registered"
    BY <1>2, <2>3 DEF Thread
  <2> HIDE DEF t
  <2>5. thread' = t /\ UNCHANGED <<worker, doc, bytes, disk, op, unsettled, imports>>
    BY <1>1, <2>1 DEF Goes, ThreadOnly, appVars
  <2>6. LibrarySteady' => e.ident = t.approved /\ t.digest = bytes[e.ident]
    BY <1>1, <1>2, <2>2, <2>4, <2>5 DEF ThreadOK, LibrarySteady, File
  <2>7. \E entry \in [path : Paths, ident : 1..Len(bytes')] :
                /\ thread'.entries = Noted(doc', thread'.id, entry)
                /\ LibrarySteady' => entry.ident = thread'.approved /\ thread'.digest = bytes'[entry.ident]
    BY <2>2, <2>4, <2>5, <2>6 DEF n
  <2>8. Doubt(thread.id)' /\ thread'.id \in 1..imports' /\ thread'.approved \in 1..Len(bytes')
        /\ worker'.up /\ worker'.active # None
    BY <1>1, <1>2, <2>4, <2>5 DEF ThreadOK, Doubt
  <2>9. ThreadOK'
    BY <1>2, <2>4, <2>5, <2>7, <2>8 DEF ThreadOK
  <2> QED
    BY <1>1, <2>1, <2>4, <2>9, Moves
<1> QED
  BY <1>3, <1>4

(* The thread compares the file once more after the document is published,   *)
(* and takes the entry back when it differs.                                 *)
LEMMA ThreadConfirmsHolds == LibraryInv /\ ThreadConfirms => LibraryInv'
<1> SUFFICES ASSUME LibraryInv, ThreadConfirms PROVE LibraryInv'
  OBVIOUS
<1>1. thread # None /\ thread.step = "confirm" /\ ThreadOnly /\ NoFault /\ UNCHANGED doc
  BY DEF ThreadConfirms, At
<1>2. /\ thread \in Thread /\ ThreadOK /\ thread.kind = "import" /\ faults' \in Nat
      /\ doc \in Document
  <2>1. thread.kind = "import"
    BY <1>1, ThreadIs DEF ThreadOK
  <2> QED
    BY <1>1, <2>1, ThreadIs DEF NoFault
<1>3. CASE StillApproved
  <2>1. ReplyCode(TRUE, thread.digest, "ok") /\ UNCHANGED scratch
    BY <1>3 DEF ThreadConfirms, Reply
  <2>2. scratch' \in BOOLEAN /\ thread.digest \in Digests \cup {None}
    BY <1>2, <2>1 DEF LibraryInv, LibraryTypeOK, Thread
  <2>3. Shown(thread.id, thread.digest)
    BY <1>1, <1>2, <1>3 DEF ThreadOK, StillApproved, LibrarySteady, File, Shown
  <2> QED
    BY <1>1, <1>2, <2>1, <2>2, <2>3, LineAnswers
<1>4. CASE ~StillApproved
  <2> DEFINE n == Forgotten(doc, thread.id)
             t == [thread EXCEPT !.step = "replace", !.entries = n, !.answer = "taken back"]
  <2>0. thread.entries = doc
    BY <1>1, <1>2 DEF ThreadOK
  <2>1. Goes(t) /\ scratch' = TRUE
    BY <1>4, <2>0 DEF ThreadConfirms, Writes, TakeBack
  <2>2. n \in Document
    BY <1>2, ForgottenType DEF Document
  <2> HIDE DEF n
  <2>3. /\ t \in Thread /\ t.kind = thread.kind /\ t.id = thread.id /\ t.step = "replace"
        /\ t.entries = n /\ t.approved = thread.approved /\ t.path = thread.path
        /\ t.answer = "taken back"
    BY <1>2, <2>2 DEF Thread
  <2> HIDE DEF t
  <2>4. thread' = t /\ UNCHANGED <<worker, doc, bytes, disk, op, unsettled, imports>>
    BY <1>1, <2>1 DEF Goes, ThreadOnly, appVars
  <2>5. Doubt(thread.id)' /\ thread'.id \in 1..imports' /\ thread'.approved \in 1..Len(bytes')
        /\ worker'.up /\ worker'.active # None /\ thread'.path \in Paths
    BY <1>1, <1>2, <2>3, <2>4 DEF ThreadOK, Doubt
  <2>6. thread'.entries = Forgotten(doc', thread'.id)
    BY <2>3, <2>4 DEF n
  <2>7. ThreadOK'
    BY <1>2, <2>3, <2>4, <2>5, <2>6 DEF ThreadOK
  <2> QED
    BY <1>1, <2>1, <2>3, <2>7, Moves
<1> QED
  BY <1>3, <1>4

(* The copy the thread publishes differs from the document in the material   *)
(* it handles only.                                                          *)
LEMMA PublishedIs ==
    ASSUME LibraryInv, thread # None, thread.step = "replace", doc' = thread.entries
    PROVE  /\ thread.kind \in {"import", "forget"}
           /\ thread.answer \in {"registered", "forgotten", "taken back"}
           /\ doc' \in Document /\ DOMAIN doc' \subseteq 1..imports
           /\ \A id \in DOMAIN doc' : doc'[id].ident \in 1..Len(bytes)
           /\ DOMAIN doc' \ {thread.id} = DOMAIN doc \ {thread.id}
           /\ \A id \in DOMAIN doc \ {thread.id} : doc'[id] = doc[id]
           /\ thread.answer = "registered" =>
                /\ thread.kind = "import" /\ thread.id \in DOMAIN doc'
                /\ LibrarySteady => doc'[thread.id].ident = thread.approved
                             /\ thread.digest = bytes[thread.approved]
           /\ thread.answer # "registered" => thread.id \notin DOMAIN doc'
           /\ thread.kind = "forget" => thread.answer = "forgotten"
           /\ thread.answer = "forgotten" => thread.kind = "forget"
<1>1. /\ thread \in Thread /\ ThreadOK /\ thread.kind \in {"import", "status", "forget"}
      /\ doc \in Document /\ DOMAIN doc \subseteq 1..imports
      /\ \A id \in DOMAIN doc : doc[id].ident \in 1..Len(bytes)
  BY ThreadIs
<1>2. /\ thread.kind \in {"import", "forget"}
      /\ thread.answer \in {"registered", "forgotten", "taken back"}
      /\ thread.kind = "forget" => thread.answer = "forgotten"
      /\ thread.answer = "forgotten" => thread.kind = "forget"
      /\ thread.answer = "registered" => thread.kind = "import"
      /\ thread.id \in 1..imports /\ thread.id \in Ids
  BY <1>1 DEF ThreadOK, Thread
<1>3. CASE thread.answer = "registered"
  <2>1. PICK entry \in [path : Paths, ident : 1..Len(bytes)] :
                /\ thread.entries = Noted(doc, thread.id, entry)
                /\ LibrarySteady => entry.ident = thread.approved /\ thread.digest = bytes[entry.ident]
    BY <1>1, <1>3 DEF ThreadOK
  <2>2. entry \in [path : Paths, ident : Nat] /\ entry.ident \in 1..Len(bytes)
    <3>1. 1..Len(bytes) \subseteq Nat
      BY DEF LibraryInv, LibraryTypeOK
    <3> QED
      BY <2>1, <3>1
  <2> DEFINE n == Noted(doc, thread.id, entry)
  <2>3. n \in Document
    BY <1>1, <1>2, <2>2, NotedType DEF Document
  <2>4. /\ DOMAIN n = DOMAIN doc \cup {thread.id} /\ n[thread.id] = entry
        /\ \A i \in DOMAIN doc : i # thread.id => n[i] = doc[i]
    BY DEF Noted
  <2>6. doc' = n
    BY <2>1
  <2> HIDE DEF n
  <2>5. \A id \in DOMAIN doc' : doc'[id].ident \in 1..Len(bytes)
    BY <1>1, <2>2, <2>4, <2>6
  <2> QED
    BY <1>1, <1>2, <1>3, <2>1, <2>3, <2>4, <2>5, <2>6
<1>4. CASE thread.answer # "registered"
  <2>1. thread.entries = Forgotten(doc, thread.id)
    BY <1>1, <1>4 DEF ThreadOK
  <2> DEFINE n == Forgotten(doc, thread.id)
  <2>2. n \in Document
    BY <1>1, ForgottenType DEF Document
  <2>3. /\ DOMAIN n = DOMAIN doc \ {thread.id}
        /\ \A i \in DOMAIN doc : i # thread.id => n[i] = doc[i]
    BY ForgottenIs
  <2>4. doc' = n
    BY <2>1
  <2> HIDE DEF n
  <2> QED
    BY <1>1, <1>2, <1>4, <2>2, <2>3, <2>4
<1> QED
  BY <1>3, <1>4

(* The document is replaced by the copy, or the write fails.                 *)
LEMMA ThreadReplacesHolds == LibraryInv /\ ThreadReplaces => LibraryInv'
<1> SUFFICES ASSUME LibraryInv, ThreadReplaces PROVE LibraryInv'
  OBVIOUS
<1>1. thread # None /\ thread.step = "replace" /\ ThreadOnly /\ scratch' = FALSE
      /\ faults' \in Nat
  <2>1. Fault \/ NoFault
    BY DEF ThreadReplaces
  <2>2. faults \in Nat
    BY DEF LibraryInv, LibraryTypeOK
  <2>3. faults' \in Nat
    BY <2>1, <2>2 DEF Fault, NoFault
  <2> QED
    BY <2>3 DEF ThreadReplaces, At
<1>2. /\ thread \in Thread /\ ThreadOK /\ bytes \in Seq(Digests \cup {None})
      /\ UNCHANGED <<disk, bytes, rows, used, appVars>>
  BY <1>1, ThreadIs DEF ThreadOnly
<1>3. CASE UNCHANGED doc /\ ReplyCode(FALSE, None, "registry")
  BY <1>1, <1>3, LineAnswers
<1>4. CASE /\ scratch /\ NoFault
             /\ doc' = thread.entries
             /\ CASE thread.answer = "registered" -> Goes([thread EXCEPT !.step = "confirm"])
                  [] thread.answer = "forgotten" -> Reply(TRUE, None)
                  [] thread.answer = "taken back" -> Reply(FALSE, None)
  <2>1. /\ thread.kind \in {"import", "forget"}
        /\ thread.answer \in {"registered", "forgotten", "taken back"}
        /\ doc' \in Document /\ DOMAIN doc' \subseteq 1..imports
        /\ \A id \in DOMAIN doc' : doc'[id].ident \in 1..Len(bytes)
        /\ DOMAIN doc' \ {thread.id} = DOMAIN doc \ {thread.id}
        /\ \A id \in DOMAIN doc \ {thread.id} : doc'[id] = doc[id]
        /\ thread.answer = "registered" =>
             /\ thread.kind = "import" /\ thread.id \in DOMAIN doc'
             /\ LibrarySteady => doc'[thread.id].ident = thread.approved
                          /\ thread.digest = bytes[thread.approved]
        /\ thread.answer # "registered" => thread.id \notin DOMAIN doc'
        /\ thread.kind = "forget" => thread.answer = "forgotten"
        /\ thread.answer = "forgotten" => thread.kind = "forget"
    BY <1>1, <1>4, PublishedIs
  <2>2. /\ OpOK' /\ RowsOK' /\ OutcomeIsTrue'
        /\ \A line \in Line : IsLine(line) => LineOK(line)'
    BY <1>1, <1>2, <2>1, DocChanges
  <2>3. CASE thread.answer = "registered"
    <3> DEFINE t == [thread EXCEPT !.step = "confirm"]
    <3>1. Goes(t)
      BY <1>4, <2>3
    <3>2. /\ t \in Thread /\ t.kind = thread.kind /\ t.id = thread.id /\ t.step = "confirm"
          /\ t.entries = thread.entries /\ t.approved = thread.approved /\ t.path = thread.path
          /\ t.digest = thread.digest
      BY <1>2 DEF Thread
    <3> HIDE DEF t
    <3>3. thread' = t /\ UNCHANGED <<worker, lines, bytes, disk, op, unsettled, imports>>
      BY <1>2, <3>1 DEF Goes, appVars
    <3>4. Doubt(thread.id)' /\ thread'.id \in 1..imports' /\ thread'.approved \in 1..Len(bytes')
          /\ worker'.up /\ worker'.active # None /\ thread'.path \in Paths
      BY <1>1, <1>2, <2>1, <2>3, <3>2, <3>3 DEF ThreadOK, Doubt
    <3>5. LibrarySteady' => LibrarySteady
      BY <3>2, <3>3 DEF LibrarySteady
    <3>6. ThreadOK'
      BY <1>2, <1>4, <2>1, <2>3, <3>2, <3>3, <3>4, <3>5 DEF ThreadOK
    <3> QED
      BY <1>1, <1>2, <2>1, <2>2, <3>2, <3>3, <3>6, ThreadGoes
  <2>4. CASE thread.answer # "registered"
    <3>1. PICK ok \in BOOLEAN, code \in {"ok", "probe", "registry"} :
            ReplyCode(ok, None, code) /\ (ok <=> thread.answer = "forgotten")
      <4>1. CASE thread.answer = "forgotten"
        <5>1. ReplyCode(TRUE, None, "ok")
          BY <1>4, <4>1 DEF Reply
        <5> QED
          BY <4>1, <5>1
      <4>2. CASE thread.answer = "taken back"
        <5>1. ReplyCode(FALSE, None, "probe")
          BY <1>4, <4>2 DEF Reply
        <5> QED
          BY <4>2, <5>1
      <4> QED
        BY <2>1, <2>4, <4>1, <4>2
    <3>2. PICK r \in Line :
             /\ r.kind = thread.kind /\ r.id = thread.id /\ r.ok = ok /\ r.digest = None
             /\ lines' = Append(lines, r) /\ thread' = None
             /\ worker' \in [up : BOOLEAN, active : Calls \cup {None}]
      BY <1>1, <3>1, Replied
    <3>3. LineOK(r)'
      BY <2>1, <2>4, <3>1, <3>2 DEF LineOK
    <3> QED
      BY <1>1, <1>2, <2>1, <2>2, <3>2, <3>3, ThreadReplies
  <2> QED
    BY <2>3, <2>4
<1> QED
  BY <1>3, <1>4 DEF ThreadReplaces

(* The worker process ends: its thread is gone, and its answers so far stay  *)
(* readable.                                                                 *)
LEMMA WorkerDiesHolds == LibraryInv /\ WorkerDies => LibraryInv'
<1> SUFFICES ASSUME LibraryInv, WorkerDies PROVE LibraryInv'
  OBVIOUS
<1>1. /\ thread' = None /\ worker' = [up |-> FALSE, active |-> None]
      /\ UNCHANGED <<disk, bytes, rows, used, appVars, lines, doc, scratch>>
      /\ faults' = faults + 1
  BY DEF WorkerDies, Fault
<1>2. /\ OpOK' /\ RowsOK' /\ OutcomeIsTrue' /\ DOMAIN doc' \subseteq 1..imports
      /\ \A line \in Line : IsLine(line) => LineOK(line)'
  BY <1>1, DocRests
<1>3. \A i \in 1..Len(lines') : LineOK(lines[i])'
  BY <1>1 DEF LibraryInv, LineOK, Shown
<1>4. LibraryTypeOK'
  BY <1>1 DEF LibraryInv, LibraryTypeOK, appVars
<1>5. QueueOK'
  BY <1>1 DEF LibraryInv, QueueOK, appVars, Waiting, IsAnswer
<1>6. OwedOK' /\ ThreadOK' /\ ResultOK'
  BY <1>1 DEF LibraryInv, OwedOK, Late, Owed, Fresh, IsAnswer, ThreadOK, ResultOK, appVars
<1> QED
  BY <1>1, <1>2, <1>3, <1>4, <1>5, <1>6 DEF LibraryInv, appVars

(* A step of the player or of a timeline leaves the library as it is.        *)
LEMMA LibraryStutters ==
    ASSUME LibraryInv, UNCHANGED <<disk, bytes, rows, appVars, workerVars, doc, faults>>,
           scratch' \in BOOLEAN, used' \subseteq Ids
    PROVE  LibraryInv'
<1> USE DEF appVars, workerVars
<1>1. LibraryTypeOK'
  BY DEF LibraryInv, LibraryTypeOK
<1>2. OpOK'
  BY DEF LibraryInv, OpOK, ImportOK, Shown, Owner, CallFor
<1>3. RowsOK' /\ OutcomeIsTrue' /\ ResultOK'
  BY DEF LibraryInv, RowsOK, Doubt, Shown, OutcomeIsTrue, ResultOK
<1>4. QueueOK' /\ OwedOK'
  BY DEF LibraryInv, QueueOK, OwedOK, Late, Owed, Fresh, IsAnswer, Waiting
<1>5. ThreadOK'
  BY DEF LibraryInv, ThreadOK, LibrarySteady, Doubt
<1>6. \A i \in 1..Len(lines') : LineOK(lines[i])'
  BY DEF LibraryInv, LineOK, Shown
<1> QED
  BY <1>1, <1>2, <1>3, <1>4, <1>5, <1>6 DEF LibraryInv

(* The player resolves, opens and leases.                                    *)
LEMMA PreviewHolds == LibraryInv /\ Preview => LibraryInv'
<1> SUFFICES ASSUME LibraryInv, Preview PROVE LibraryInv'
  OBVIOUS
<1>1. UNCHANGED <<disk, bytes, rows, used, appVars, workerVars, doc, faults>>
      /\ (UNCHANGED scratch \/ scratch' = FALSE)
  BY DEF Preview, PreviewResolves, PreviewOpens, PreviewLeased, PreviewEnds, PreviewOnly
<1>2. scratch' \in BOOLEAN /\ used' \subseteq Ids
  BY <1>1 DEF LibraryInv, LibraryTypeOK
<1> QED
  BY <1>1, <1>2, LibraryStutters

(* A timeline refers to a material.                                          *)
LEMMA UseInTimelineHolds == LibraryInv /\ UseInTimeline => LibraryInv'
<1> SUFFICES ASSUME LibraryInv, UseInTimeline PROVE LibraryInv'
  OBVIOUS
<1>1. UNCHANGED <<disk, bytes, rows, appVars, workerVars, doc, scratch, faults>>
  BY DEF UseInTimeline
<1>2. PICK id \in DOMAIN rows : used' = used \cup {id}
  BY DEF UseInTimeline
<1>3. id \in Ids
  BY <1>2, LibraryAssumption DEF LibraryInv, LibraryTypeOK, Ids
<1>4. scratch' \in BOOLEAN /\ used' \subseteq Ids
  BY <1>1, <1>2, <1>3 DEF LibraryInv, LibraryTypeOK
<1> QED
  BY <1>1, <1>4, LibraryStutters

(* The user edits, moves or removes a file: the new bytes have a new         *)
(* identity.                                                                 *)
LEMMA EditFileHolds == LibraryInv /\ EditFile => LibraryInv'
<1> SUFFICES ASSUME LibraryInv, EditFile PROVE LibraryInv'
  OBVIOUS
<1> USE DEF appVars, workerVars
<1>1. UNCHANGED <<rows, used, appVars, workerVars, doc, scratch, faults>>
  BY DEF EditFile
<1>2. PICK path \in Paths, digest \in Digests \cup {None} :
        /\ bytes' = Append(bytes, digest)
        /\ disk' = [disk EXCEPT ![path] = IF digest = None THEN None ELSE Len(bytes')]
  BY DEF EditFile
<1>3. /\ bytes \in Seq(Digests \cup {None}) /\ disk \in [Paths -> (1..Len(bytes)) \cup {None}]
      /\ None \notin Nat /\ Len(bytes) \in Nat
      /\ \A id \in DOMAIN doc : doc[id].ident \in 1..Len(bytes)
  BY NoneIsNoRecord DEF LibraryInv, LibraryTypeOK
<1>4. /\ bytes' \in Seq(Digests \cup {None}) /\ Len(bytes') = Len(bytes) + 1
      /\ \A i \in 1..Len(bytes) : bytes'[i] = bytes[i] /\ i \in 1..Len(bytes')
      /\ Len(bytes') \in 1..Len(bytes') /\ Len(bytes') \notin 1..Len(bytes)
  <2>1. /\ Append(bytes, digest) \in Seq(Digests \cup {None})
        /\ Len(Append(bytes, digest)) = Len(bytes) + 1
        /\ \A i \in 1..Len(bytes) : Append(bytes, digest)[i] = bytes[i]
    BY <1>3, Added
  <2> QED
    BY <1>2, <1>3, <2>1
<1>5. /\ disk' \in [Paths -> (1..Len(bytes')) \cup {None}]
      /\ \A p \in Paths, n \in 1..Len(bytes) : disk'[p] = n => disk[p] = n
  <2> DEFINE v == IF digest = None THEN None ELSE Len(bytes')
  <2>1. v \in (1..Len(bytes')) \cup {None} /\ \A n \in 1..Len(bytes) : v # n
    BY <1>3, <1>4
  <2>2. disk' = [disk EXCEPT ![path] = v]
    BY <1>2
  <2> HIDE DEF v
  <2>3. disk' \in [Paths -> (1..Len(bytes')) \cup {None}]
    BY <1>3, <1>4, <2>1, <2>2
  <2>4. \A p \in Paths : disk'[p] = v \/ disk'[p] = disk[p]
    BY <1>3, <2>2
  <2> QED
    BY <2>1, <2>3, <2>4
<1>6. LibraryTypeOK'
  <2>1. \A id \in DOMAIN doc' : doc'[id].ident \in 1..Len(bytes')
    BY <1>1, <1>3, <1>4
  <2> QED
    BY <1>1, <1>4, <1>5, <2>1 DEF LibraryInv, LibraryTypeOK
<1>7. \A id, d : Shown(id, d) => id \in DOMAIN doc' /\ bytes'[doc'[id].ident] = d
  BY <1>1, <1>3, <1>4 DEF Shown
<1>8. OpOK'
  BY <1>1, <1>7 DEF LibraryInv, OpOK, ImportOK, Shown, Owner, CallFor
<1>9. RowsOK' /\ OutcomeIsTrue' /\ ResultOK'
  BY <1>1, <1>7 DEF LibraryInv, RowsOK, Doubt, Shown, OutcomeIsTrue, ResultOK
<1>10. QueueOK' /\ OwedOK'
  BY <1>1 DEF LibraryInv, QueueOK, OwedOK, Late, Owed, Fresh, IsAnswer, Waiting
<1>11. \A i \in 1..Len(lines') : LineOK(lines[i])'
  BY <1>1, <1>7 DEF LibraryInv, LineOK, Shown
<1>12. ThreadOK'
  <2> SUFFICES ASSUME thread # None PROVE ThreadOK'
    BY <1>1 DEF ThreadOK
  <2>1. ThreadOK /\ thread \in Thread /\ thread.kind \in {"import", "forget", "status"}
    BY ThreadIs
  <2>2. thread.kind = "import" /\ thread.step # "open" =>
          thread.path \in Paths /\ thread.approved \in 1..Len(bytes)
          /\ thread.approved \in 1..Len(bytes') /\ bytes'[thread.approved] = bytes[thread.approved]
    BY <2>1, <1>4 DEF ThreadOK
  <2>3. thread.kind = "import" /\ thread.step # "open" /\ LibrarySteady' => LibrarySteady
    BY <1>1, <1>5, <2>2 DEF LibrarySteady
  <2>4. Doubt(thread.id) => Doubt(thread.id)'
    BY <1>1 DEF Doubt
  <2>5. CASE thread.kind # "import"
    <3>1. Doubt(thread.id) => Doubt(thread.id)'
      BY <1>1 DEF Doubt
    <3> QED
      BY <1>1, <2>1, <2>5 DEF ThreadOK
  <2>6. CASE thread.kind = "import" /\ thread.step # "replace"
    <3>1. /\ thread.step \in {"hold", "register"} /\ LibrarySteady' => thread.digest = bytes'[thread.approved]
          /\ thread.step = "confirm" /\ LibrarySteady' =>
               doc[thread.id].ident = thread.approved /\ thread.digest = bytes'[thread.approved]
      BY <2>1, <2>2, <2>3, <2>6 DEF ThreadOK
    <3>2. thread' = thread /\ worker' = worker /\ doc' = doc /\ imports' = imports
      BY <1>1
    <3> QED
      BY <2>1, <2>2, <2>4, <2>6, <3>1, <3>2 DEF ThreadOK
  <2>7. CASE thread.kind = "import" /\ thread.step = "replace" /\ thread.answer # "registered"
    <3>2. thread' = thread /\ worker' = worker /\ doc' = doc /\ imports' = imports
      BY <1>1
    <3> QED
      BY <2>1, <2>2, <2>4, <2>7, <3>2 DEF ThreadOK
  <2>8. CASE thread.kind = "import" /\ thread.step = "replace" /\ thread.answer = "registered"
    <3>1. PICK entry \in [path : Paths, ident : 1..Len(bytes)] :
            /\ thread.entries = Noted(doc, thread.id, entry)
            /\ LibrarySteady => entry.ident = thread.approved /\ thread.digest = bytes[entry.ident]
      BY <2>1, <2>8 DEF ThreadOK
    <3>2. entry \in [path : Paths, ident : 1..Len(bytes')]
      BY <1>4, <3>1
    <3>3. LibrarySteady' => entry.ident = thread.approved /\ thread.digest = bytes'[entry.ident]
      BY <2>3, <2>2, <2>8, <3>1
    <3>4. thread' = thread /\ worker' = worker /\ doc' = doc /\ imports' = imports
      BY <1>1
    <3>5. \E e \in [path : Paths, ident : 1..Len(bytes')] :
            /\ thread'.entries = Noted(doc', thread'.id, e)
            /\ LibrarySteady' => e.ident = thread'.approved /\ thread'.digest = bytes'[e.ident]
      BY <3>1, <3>2, <3>3, <3>4
    <3> QED
      BY <2>1, <2>2, <2>4, <2>8, <3>4, <3>5 DEF ThreadOK
  <2> QED
    BY <2>1, <2>5, <2>6, <2>7, <2>8
<1> QED
  BY <1>1, <1>6, <1>8, <1>9, <1>10, <1>11, <1>12 DEF LibraryInv

(* The App exits in the middle of an operation, which is left in doubt.      *)
LEMMA AppExitsHolds == LibraryInv /\ AppExits => LibraryInv'
<1> SUFFICES ASSUME LibraryInv, AppExits PROVE LibraryInv'
  OBVIOUS
<1>1. /\ op # None /\ op' = None /\ result' = None /\ lines' = <<>> /\ thread' = None
      /\ unsettled' = unsettled \cup {op.id} \cup ({op.other} \ {None})
      /\ worker' = [up |-> FALSE, active |-> None] /\ faults' = faults + 1
      /\ UNCHANGED <<disk, bytes, rows, used, imports, started, doc, scratch>>
  BY DEF AppExits, Fault
<1>2. op \in Operation
  BY <1>1 DEF LibraryInv, LibraryTypeOK
<1>3. unsettled' \subseteq Ids
  BY <1>1, <1>2 DEF LibraryInv, LibraryTypeOK, Operation
<1>4. LibraryTypeOK'
  BY <1>1, <1>3 DEF LibraryInv, LibraryTypeOK
<1>5. OpOK' /\ QueueOK' /\ OwedOK' /\ ThreadOK' /\ ResultOK' /\ OutcomeIsTrue'
  BY <1>1 DEF OpOK, QueueOK, OwedOK, ThreadOK, ResultOK, OutcomeIsTrue, Waiting, Late
<1>6. RowsOK'
  <2>1. \A id \in DOMAIN rows : Doubt(id) => id \in unsettled'
    <3>1. \A id \in DOMAIN rows : id \in Nat /\ id # None
      <4>1. DOMAIN rows \subseteq 1..imports
        BY DEF LibraryInv, LibraryTypeOK
      <4>2. imports \in Nat
        BY LibraryAssumption DEF LibraryInv, LibraryTypeOK
      <4> QED
        BY <4>1, <4>2, NoneIsNoRecord
    <3> QED
      BY <1>1, <3>1 DEF Doubt
  <2> QED
    BY <1>1, <2>1 DEF LibraryInv, RowsOK, Doubt, Shown
<1> QED
  BY <1>1, <1>4, <1>5, <1>6 DEF LibraryInv

-----------------------------------------------------------------------------
(* The App *)

(* The types of the operation that holds the gate.                           *)
LEMMA OpIs ==
    ASSUME LibraryInv, op # None
    PROVE  /\ op \in Operation /\ OpOK /\ result = None
           /\ op.id \in Ids /\ op.id \in 1..imports /\ op.id \in Nat
           /\ op.other \in Ids \cup {None} /\ op.waiting \in Command \cup {None}
           /\ op.digest \in Digests \cup {None}
           /\ op.kind \in {"import", "delete", "status"}
           /\ op.waiting # None => op.waiting = CallFor(op.step)
           /\ op.kind = "import" => ImportOK
           /\ op.kind = "delete" => op.step \in {"status", "delete row", "forget"}
           /\ op.kind = "status" => op.step = "status"
<1>1. op \in Operation /\ OpOK
  BY DEF LibraryInv, LibraryTypeOK
<1>2. /\ op.id \in Ids /\ op.other \in Ids \cup {None} /\ op.waiting \in Command \cup {None}
      /\ op.digest \in Digests \cup {None} /\ op.kind \in {"import", "delete", "status"}
  BY <1>1 DEF Operation
<1>3. op.id \in Nat
  BY <1>2, NoneIsNoRecord
<1> QED
  BY <1>1, <1>2, <1>3 DEF OpOK

(* A step of the App leaves the thread where it was.                         *)
LEMMA ThreadRests ==
    ASSUME LibraryInv, UNCHANGED <<thread, disk, bytes, doc>>, thread # None => worker' = worker,
           1..imports \subseteq 1..imports',
           thread # None /\ thread.kind = "import" => Doubt(thread.id)'
    PROVE  ThreadOK'
<1> SUFFICES ASSUME thread # None PROVE ThreadOK'
  BY DEF ThreadOK
<1>1. ThreadOK
  BY DEF LibraryInv
<1>2. thread' = thread /\ worker' = worker /\ doc' = doc /\ bytes' = bytes /\ disk' = disk
  OBVIOUS
<1>3. LibrarySteady' <=> LibrarySteady
  BY <1>2 DEF LibrarySteady
<1>4. thread.kind = "import" => Doubt(thread.id)'
  OBVIOUS
<1> QED
  BY <1>1, <1>2, <1>3, <1>4 DEF ThreadOK

(* A step of the App keeps the invariant when the parts it can disturb hold  *)
(* after it.                                                                 *)
LEMMA AppSteps ==
    ASSUME LibraryInv, UNCHANGED <<disk, bytes, used, doc, scratch, thread>>,
           worker' \in [up : BOOLEAN, active : Calls \cup {None}],
           thread # None => worker' = worker,
           imports' \in 0..MaxImports, 1..imports \subseteq 1..imports', started' \in Nat,
           faults' \in Nat,
           op' \in Operation \cup {None}, result' \in Result \cup {None}, unsettled' \subseteq Ids,
           rows' \in UNION {[S -> Digests \cup {None}] : S \in SUBSET (1..imports')},
           lines' \in Seq(Line), \A i \in 1..Len(lines') : IsLine(lines'[i]),
           OpOK', QueueOK', OwedOK', RowsOK', ResultOK', OutcomeIsTrue',
           thread # None /\ thread.kind = "import" => Doubt(thread.id)'
    PROVE  LibraryInv'
<1>1. ThreadOK'
  BY ThreadRests
<1>2. LibraryTypeOK'
  BY DEF LibraryInv, LibraryTypeOK
<1>3. \A i \in 1..Len(lines') : LineOK(lines[i])'
  <2> SUFFICES ASSUME NEW i \in 1..Len(lines') PROVE LineOK(lines[i])'
    OBVIOUS
  <2>1. PICK j \in 1..Len(lines) : lines[j] = lines'[i]
    BY DEF IsLine
  <2>2. LineOK(lines[j])
    BY DEF LibraryInv
  <2> QED
    BY <2>1, <2>2 DEF LineOK, Shown
<1>4. DOMAIN doc' \subseteq 1..imports'
  BY DEF LibraryInv
<1> QED
  BY <1>1, <1>2, <1>3, <1>4 DEF LibraryInv

(* An operation ends.                                                        *)
LEMMA Ended ==
    ASSUME LibraryInv, op # None,
           NEW kind \in {"imported", "deleted", "refused", "status", "lifecycle", "uncertain",
                         "compensation", "control plane"},
           NEW id \in Ids, NEW doubtful \in SUBSET {id}, End(kind, id, doubtful),
           UNCHANGED <<disk, bytes, used, doc, scratch, thread, worker, imports, started>>,
           faults' \in Nat,
           rows' \in UNION {[S -> Digests \cup {None}] : S \in SUBSET (1..imports)},
           lines' \in Seq(Line), \A i \in 1..Len(lines') : IsLine(lines'[i]),
           lines' = <<>> \/ (thread = None /\ Len(lines') = 1),
           thread # None /\ thread.kind = "import" => thread.id \in unsettled',
           \A i \in DOMAIN rows' \cap DOMAIN doc : i \notin unsettled' => Shown(i, rows'[i]),
           kind \in {"imported", "deleted"} => lines' = <<>> /\ thread = None,
           kind = "imported" => id \in DOMAIN rows' \cap DOMAIN doc,
           kind = "deleted" => id \notin DOMAIN rows' \cup DOMAIN doc
    PROVE  LibraryInv'
<1>1. /\ op' = None /\ result' = [kind |-> kind, id |-> id] /\ result' \in Result
      /\ unsettled' \subseteq unsettled \cup {id} /\ result'.kind = kind /\ result'.id = id
  BY DEF End, Result
<1>2. unsettled' \subseteq Ids /\ imports \in 0..MaxImports /\ started \in Nat
      /\ worker \in [up : BOOLEAN, active : Calls \cup {None}]
  BY <1>1 DEF LibraryInv, LibraryTypeOK
<1>3. OpOK' /\ OwedOK'
  BY <1>1 DEF OpOK, OwedOK, Late
<1>4. QueueOK'
  <2>1. \A i \in 1..Len(lines') : lines'[i].id \in 1..imports
    BY DEF LibraryInv, QueueOK, IsLine
  <2> QED
    BY <1>1, <2>1 DEF QueueOK, Waiting
<1>5. RowsOK'
  BY <1>1 DEF RowsOK, Doubt, Shown
<1>6. ResultOK' /\ OutcomeIsTrue'
  BY <1>1 DEF ResultOK, OutcomeIsTrue
<1>7. thread # None /\ thread.kind = "import" => Doubt(thread.id)'
  BY DEF Doubt
<1> QED
  BY <1>1, <1>2, <1>3, <1>4, <1>5, <1>6, <1>7, AppSteps

\* The operation goes on to another step, with nothing to be told.
(* An operation goes on to its next step.                                    *)
LEMMA Advanced ==
    ASSUME LibraryInv, op # None, NEW o \in Operation, op' = o, o.kind = op.kind, o.id = op.id,
           o.step \notin {"import", "status"}, o.waiting = None,
           UNCHANGED <<result, unsettled, disk, bytes, used, doc, scratch, thread, worker, imports,
                       started>>,
           faults' \in Nat,
           rows' \in UNION {[S -> Digests \cup {None}] : S \in SUBSET (1..imports)},
           lines' \in Seq(Line), \A i \in 1..Len(lines') : IsLine(lines'[i]),
           lines' = <<>> \/ (thread = None /\ Len(lines') = 1),
           \A i \in 1..Len(lines') : o.kind = "delete" /\ lines'[i].kind = "status"
                                     /\ lines'[i].id = o.id,
           thread # None => o.kind = "delete" /\ thread.kind = "status" /\ thread.id = o.id,
           OpOK', RowsOK'
    PROVE  LibraryInv'
<1>1. /\ result = None /\ op' # None /\ ~Waiting'
  BY OpIs, NoneIsNoRecord DEF Waiting
<1>2. unsettled' \subseteq Ids /\ imports \in 0..MaxImports /\ started \in Nat
      /\ worker \in [up : BOOLEAN, active : Calls \cup {None}]
  BY DEF LibraryInv, LibraryTypeOK
<1>3. OwedOK'
  BY DEF OwedOK, Late, Owed
<1>4. QueueOK'
  <2>1. \A i \in 1..Len(lines') : lines'[i].id \in 1..imports
    BY DEF LibraryInv, QueueOK, IsLine
  <2> QED
    BY <1>1, <2>1 DEF QueueOK
<1>5. ResultOK' /\ OutcomeIsTrue'
  BY <1>1 DEF ResultOK, OutcomeIsTrue
<1>6. thread # None /\ thread.kind = "import" => Doubt(thread.id)'
  OBVIOUS
<1> QED
  BY <1>1, <1>2, <1>3, <1>4, <1>5, <1>6, AppSteps

(* What an operation waits for, by its step.                                 *)
LEMMA CalledIs ==
    ASSUME LibraryInv, Waiting
    PROVE  /\ op.step \in {"import", "status", "undo", "drop", "remap", "unmap", "forget"}
           /\ op.step \in {"import", "status"} => op.waiting.kind = op.step
           /\ op.step \in {"undo", "drop", "unmap", "forget"} => op.waiting.kind = "forget"
           /\ op.step = "remap" => op.waiting.kind = "import"
           /\ op.step \notin {"remap", "unmap"} => op.waiting.id = op.id
           /\ op.step \in {"remap", "unmap"} => op.waiting.id = op.other /\ op.kind = "import"
           /\ op.step \in {"import", "undo", "drop"} => op.kind = "import"
           /\ op.step = "forget" => op.kind = "delete"
           /\ op.step = "status" => op.kind \in {"delete", "status"}
<1>1. op # None /\ op.waiting # None
  BY DEF Waiting
<1>2. op \in Operation /\ op.waiting = CallFor(op.step)
  BY <1>1, OpIs
<1>3. op.step \in {"import", "find", "register", "recheck", "undo", "drop", "remap", "unmap",
                   "status", "delete row", "forget"}
  BY <1>2 DEF Operation
<1>4. op.step \in {"import", "status", "undo", "drop", "remap", "unmap", "forget"}
  BY <1>1, <1>2, <1>3 DEF CallFor
<1>5. /\ op.step \in {"import", "status"} => op.waiting.kind = op.step
      /\ op.step \in {"undo", "drop", "unmap", "forget"} => op.waiting.kind = "forget"
      /\ op.step = "remap" => op.waiting.kind = "import"
      /\ op.step \notin {"remap", "unmap"} => op.waiting.id = op.id
      /\ op.step \in {"remap", "unmap"} => op.waiting.id = op.other
  BY <1>2, <1>4 DEF CallFor
<1>6. /\ op.kind \in {"import", "delete", "status"}
      /\ op.kind = "import" => ImportOK
      /\ op.kind = "delete" => op.step \in {"status", "delete row", "forget"}
      /\ op.kind = "status" => op.step = "status"
  BY <1>1, OpIs
<1>7. op.kind = "import" => op.step \in ImportSteps
  BY <1>6 DEF ImportOK
<1> QED
  BY <1>4, <1>5, <1>6, <1>7 DEF ImportSteps

(* An import that the thread handles is the one the App waits for, or one in *)
(* doubt.                                                                    *)
LEMMA ImportThread ==
    ASSUME LibraryInv, Waiting, thread # None, thread.kind = "import"
    PROVE  \/ thread.id \in unsettled
           \/ op.step = "import" /\ thread.id = op.id
           \/ op.step = "remap" /\ thread.id = op.other
<1>1. Doubt(thread.id)
  BY DEF LibraryInv, ThreadOK
<1>2. ASSUME op.kind = "import", op.step # "import"
      PROVE  op.step = "remap" /\ thread.id = op.other
  <2>1. Late
    BY <1>2, CalledIs DEF Late, Waiting
  <2>2. IsAnswer(thread)
    BY <1>2, <2>1 DEF LibraryInv, OwedOK, Owed
  <2> QED
    BY <1>2, <2>2, CalledIs DEF IsAnswer
<1>3. CASE thread.id \in unsettled
  BY <1>3
<1>4. CASE op.kind = "import"
  BY <1>1, <1>2, <1>4 DEF Doubt
<1> QED
  BY <1>1, <1>3, <1>4 DEF Doubt

\* An operation that ends without certainty leaves its materials in doubt.
(* An operation ends without success while it waits for an answer.           *)
LEMMA EndedUncertain ==
    ASSUME LibraryInv, Waiting,
           NEW kind \in {"refused", "status", "lifecycle", "uncertain", "compensation"},
           NEW id \in Ids, NEW doubtful \in SUBSET {id}, End(kind, id, doubtful),
           UNCHANGED <<disk, bytes, rows, used, doc, scratch, thread, worker, imports, started>>,
           faults' \in Nat,
           lines' \in Seq(Line), \A i \in 1..Len(lines') : IsLine(lines'[i]),
           lines' = <<>> \/ (thread = None /\ Len(lines') = 1),
           thread = None \/ (op.step = "remap" /\ op.other \in doubtful)
             \/ (op.step = "import" /\ op.id \in doubtful) \/ op.step \notin {"import", "remap"},
           op.step = "undo" => op.id \in doubtful \/ op.id \notin DOMAIN doc,
           op.step \in {"remap", "unmap"} => op.other \in doubtful \/ op.other \notin DOMAIN doc
    PROVE  LibraryInv'
<1>1. unsettled' = unsettled \cup doubtful
  BY DEF End
<1>2. op # None
  BY DEF Waiting
<1>3. thread # None /\ thread.kind = "import" => thread.id \in unsettled'
  BY <1>1, ImportThread
<1>4. \A i \in DOMAIN rows \cap DOMAIN doc : i \notin unsettled' => Shown(i, rows[i])
  <2> SUFFICES ASSUME NEW i \in DOMAIN rows \cap DOMAIN doc, i \notin unsettled' PROVE Shown(i, rows[i])
    OBVIOUS
  <2>1. CASE ~Doubt(i)
    BY <2>1 DEF LibraryInv, RowsOK
  <2>2. CASE Doubt(i)
    <3>1. op.kind = "import" /\ (i = op.id \/ (op.step \in {"remap", "unmap"} /\ i = op.other))
      BY <1>1, <2>2 DEF Doubt
    <3>2. ImportOK
      BY <1>2, <3>1, OpIs
    <3>3. op.id \in DOMAIN rows => op.step = "undo"
      BY <3>2, CalledIs DEF ImportOK
    <3> QED
      BY <1>1, <3>1, <3>3
  <2> QED
    BY <2>1, <2>2
<1>5. rows' = rows /\ rows \in UNION {[S -> Digests \cup {None}] : S \in SUBSET (1..imports)}
  BY DEF LibraryInv, LibraryTypeOK
<1> QED
  BY <1>2, <1>3, <1>4, <1>5, Ended

Answerless ==
    /\ UNCHANGED <<disk, bytes, rows, used, doc, scratch, thread, worker, imports, started>>
    /\ faults' \in Nat
    /\ lines' \in Seq(Line)
    /\ \A i \in 1..Len(lines') : IsLine(lines'[i])
    /\ lines' = <<>> \/ (thread = None /\ Len(lines') = 1)

(* A refused call past the first one ends its operation in doubt.            *)
LEMMA RefusedHolds ==
    ASSUME LibraryInv, Waiting, Answerless, op.step # "status", op.step # "import",
           NEW digest, NEW code, TakeAnswer(FALSE, digest, code)
    PROVE  LibraryInv'
<1> DEFINE who == IF op.step \in {"remap", "unmap"} THEN op.other ELSE op.id
<1>1. \E kind \in {"uncertain", "compensation"} : End(kind, who, {who})
  <2>1. CASE op.step \in {"undo", "drop", "forget"}
    BY <2>1 DEF TakeAnswer
  <2>2. CASE op.step = "remap"
    BY <2>2 DEF TakeAnswer
  <2>3. CASE op.step = "unmap"
    BY <2>3 DEF TakeAnswer
  <2> QED
    BY <2>1, <2>2, <2>3, CalledIs
<1>2. who \in Ids
  <2>1. op.id \in Ids /\ (op.kind = "import" => ImportOK)
    BY OpIs DEF Waiting
  <2>2. op.step \in {"remap", "unmap"} => op.other \in Ids
    <3>1. op.step \in {"remap", "unmap"} => op.other \in DOMAIN rows
      BY <2>1, CalledIs DEF ImportOK
    <3>2. DOMAIN rows \subseteq 1..imports
      BY DEF LibraryInv, LibraryTypeOK
    <3>3. 1..imports \subseteq Ids
      BY LibraryAssumption DEF LibraryInv, LibraryTypeOK, Ids
    <3> QED
      BY <3>1, <3>2, <3>3
  <2> QED
    BY <2>1, <2>2
<1>3. op.step \in {"remap", "unmap"} => who = op.other
  OBVIOUS
<1>4. op.step = "undo" => who = op.id
  OBVIOUS
<1> HIDE DEF who
<1> QED
  BY <1>1, <1>2, <1>3, <1>4, EndedUncertain DEF Answerless

(* A call without an answer ends its operation in doubt.                     *)
LEMMA UnansweredHolds ==
    ASSUME LibraryInv, Waiting, Answerless, Unanswered
    PROVE  LibraryInv'
<1>1. CASE op.step \in {"import", "status"}
  <2>1. End("lifecycle", op.id, {op.id}) /\ op.id \in Ids
    BY <1>1, OpIs DEF Unanswered, Waiting
  <2> QED
    BY <1>1, <2>1, EndedUncertain DEF Answerless
<1>2. CASE op.step \notin {"import", "status"}
  <2>1. TakeAnswer(FALSE, None, "lost")
    BY <1>2 DEF Unanswered
  <2> QED
    BY <1>2, <2>1, RefusedHolds
<1> QED
  BY <1>1, <1>2

(* An answer that is taken sends the operation on, or ends it.               *)
LEMMA AcceptedHolds ==
    ASSUME LibraryInv, Waiting, Answerless, NEW ok \in BOOLEAN, NEW digest \in Digests \cup {None},
           NEW code, TakeAnswer(ok, digest, code),
           op.step # "status" => lines' = <<>> /\ thread = None,
           op.step = "status" =>
             /\ \A i \in 1..Len(lines') : lines'[i].kind = "status" /\ lines'[i].id = op.id
             /\ thread # None => thread.kind = "status" /\ thread.id = op.id,
           op.waiting.kind = "import" /\ ok => Shown(op.waiting.id, digest),
           op.waiting.kind = "forget" /\ ok => op.waiting.id \notin DOMAIN doc
    PROVE  LibraryInv'
<1>0. op # None /\ op.waiting # None /\ None \notin Nat
  BY NoneIsNoRecord DEF Waiting
<1>1. /\ op \in Operation /\ op.id \in Ids /\ op.id \in 1..imports /\ op.id # None
      /\ op.other \in Ids \cup {None} /\ op.digest \in Digests \cup {None}
      /\ op.kind = "import" => ImportOK
      /\ result = None
  BY <1>0, OpIs
<1>2. /\ rows \in UNION {[S -> Digests \cup {None}] : S \in SUBSET (1..imports)}
      /\ DOMAIN rows \subseteq Ids
  <2>1. rows \in UNION {[S -> Digests \cup {None}] : S \in SUBSET (1..imports)}
    BY DEF LibraryInv, LibraryTypeOK
  <2>2. 1..imports \subseteq Ids
    BY LibraryAssumption DEF LibraryInv, LibraryTypeOK, Ids
  <2> QED
    BY <2>1, <2>2
<1>3. Answerless /\ UNCHANGED <<disk, bytes, rows, used, doc, scratch, thread, worker, imports, started>>
  BY DEF Answerless
<1>4. CASE op.step = "import" /\ ~ok
  <2>1. PICK doubtful \in SUBSET {op.id} : End("refused", op.id, doubtful)
    BY <1>4 DEF TakeAnswer
  <2> QED
    BY <1>1, <1>3, <1>4, <2>1, EndedUncertain DEF Answerless
<1>5. CASE op.step = "import" /\ ok
  <2> DEFINE o == [op EXCEPT !.step = "find", !.waiting = None, !.digest = digest]
  <2>1. op' = o /\ UNCHANGED <<result, unsettled>>
    BY <1>5 DEF TakeAnswer
  <2>2. /\ o \in Operation /\ o.kind = op.kind /\ o.id = op.id /\ o.step = "find"
        /\ o.waiting = None /\ o.digest = digest /\ o.path = op.path /\ o.other = op.other
    BY <1>1 DEF Operation
  <2> HIDE DEF o
  <2>3. op.kind = "import" /\ Shown(op.id, digest)
    BY <1>5, CalledIs
  <2>4. OpOK'
    BY <1>1, <1>3, <1>5, <2>1, <2>2, <2>3 DEF OpOK, ImportOK, Shown, ImportSteps
  <2>5. \A id : Doubt(id) => Doubt(id)'
    BY NoneIsNoRecord, <1>1, <1>5, <2>1, <2>2, <2>3 DEF Doubt, ImportOK
  <2>6. RowsOK'
    BY <1>3, <2>5 DEF LibraryInv, RowsOK, Shown
  <2> QED
    BY <1>0, <1>2, <1>3, <1>5, <2>1, <2>2, <2>4, <2>6, Advanced DEF Answerless
<1>6. CASE op.step = "status" /\ op.kind = "status"
  <2>1. End("status", op.id, {})
    BY <1>6 DEF TakeAnswer
  <2> QED
    BY <1>1, <1>3, <1>6, <2>1, EndedUncertain DEF Answerless
<1>7. CASE op.step = "status" /\ op.kind = "delete"
  <2> DEFINE o == [op EXCEPT !.step = "delete row", !.waiting = None]
  <2>1. op' = o /\ UNCHANGED <<result, unsettled>>
    BY <1>7 DEF TakeAnswer, Onto
  <2>2. /\ o \in Operation /\ o.kind = op.kind /\ o.id = op.id /\ o.step = "delete row"
        /\ o.waiting = None
    BY <1>1 DEF Operation
  <2> HIDE DEF o
  <2>3. OpOK'
    BY <1>1, <1>3, <1>7, <2>1, <2>2 DEF OpOK
  <2>4. \A id : Doubt(id) => Doubt(id)'
    BY <1>1, <1>7, <2>1, <2>2 DEF Doubt
  <2>5. RowsOK'
    BY <1>3, <2>4 DEF LibraryInv, RowsOK, Shown
  <2> QED
    BY <1>0, <1>2, <1>3, <1>7, <2>1, <2>2, <2>3, <2>5, Advanced DEF Answerless
<1>8. CASE op.step \notin {"import", "status"} /\ ~ok
  BY <1>8, <1>3, RefusedHolds
<1>9. CASE op.step = "undo" /\ ok
  <2>1. End("refused", op.id, {}) /\ op.id \notin DOMAIN doc
    BY <1>9, CalledIs DEF TakeAnswer
  <2> QED
    BY <1>1, <1>3, <1>9, <2>1, EndedUncertain DEF Answerless
<1>10. CASE op.step = "drop" /\ ok
  <2> DEFINE o == [op EXCEPT !.step = "remap", !.waiting = None]
  <2>1. op' = o /\ UNCHANGED <<result, unsettled>>
    BY <1>10 DEF TakeAnswer, Onto
  <2>2. /\ o \in Operation /\ o.kind = op.kind /\ o.id = op.id /\ o.step = "remap"
        /\ o.waiting = None /\ o.digest = op.digest /\ o.path = op.path /\ o.other = op.other
    BY <1>1 DEF Operation
  <2> HIDE DEF o
  <2>3. op.kind = "import"
    BY <1>10, CalledIs
  <2>4. OpOK'
    BY <1>1, <1>3, <1>10, <2>1, <2>2, <2>3 DEF OpOK, ImportOK, ImportSteps
  <2>5. \A id : Doubt(id) => Doubt(id)'
    BY NoneIsNoRecord, <1>1, <1>10, <2>1, <2>2, <2>3 DEF Doubt
  <2>6. RowsOK'
    BY <1>3, <2>5 DEF LibraryInv, RowsOK, Shown
  <2> QED
    BY <1>0, <1>2, <1>3, <1>10, <2>1, <2>2, <2>4, <2>6, Advanced DEF Answerless
<1>11. CASE op.step = "remap" /\ ok /\ digest = op.digest
  <2>1. End("imported", op.other, {}) /\ op.kind = "import"
    BY <1>11, CalledIs DEF TakeAnswer
  <2>2. op.other \in DOMAIN rows /\ rows[op.other] = op.digest /\ op.id \notin DOMAIN rows
    BY <1>1, <1>11, <2>1 DEF ImportOK
  <2>3. Shown(op.other, rows[op.other])
    BY <1>11, <2>2, CalledIs
  <2>4. unsettled' = unsettled \ {op.other}
    BY <2>1 DEF End
  <2>5. \A i \in DOMAIN rows \cap DOMAIN doc : i \notin unsettled' => Shown(i, rows[i])
    <3> SUFFICES ASSUME NEW i \in DOMAIN rows \cap DOMAIN doc, i \notin unsettled', i # op.other
                 PROVE  Shown(i, rows[i])
      BY <2>3
    <3>1. ~Doubt(i)
      BY <2>2, <2>4 DEF Doubt
    <3> QED
      BY <3>1 DEF LibraryInv, RowsOK
  <2>6. op.other \in DOMAIN rows \cap DOMAIN doc
    BY <2>2, <2>3 DEF Shown
  <2>7. {} \in SUBSET {op.other} /\ op.other \in Ids
    BY <1>2, <2>2
  <2> QED
    BY <1>0, <1>2, <1>3, <1>11, <2>1, <2>5, <2>6, <2>7, Ended DEF Answerless
<1>12. CASE op.step = "remap" /\ ok /\ digest # op.digest
  <2> DEFINE o == [op EXCEPT !.step = "unmap", !.waiting = None]
  <2>1. op' = o /\ UNCHANGED <<result, unsettled>>
    BY <1>12 DEF TakeAnswer, Onto
  <2>2. /\ o \in Operation /\ o.kind = op.kind /\ o.id = op.id /\ o.step = "unmap"
        /\ o.waiting = None /\ o.digest = op.digest /\ o.path = op.path /\ o.other = op.other
    BY <1>1 DEF Operation
  <2> HIDE DEF o
  <2>3. op.kind = "import"
    BY <1>12, CalledIs
  <2>4. OpOK'
    BY <1>1, <1>3, <1>12, <2>1, <2>2, <2>3 DEF OpOK, ImportOK, ImportSteps
  <2>5. \A id : Doubt(id) => Doubt(id)'
    BY NoneIsNoRecord, <1>1, <1>12, <2>1, <2>2, <2>3 DEF Doubt
  <2>6. RowsOK'
    BY <1>3, <2>5 DEF LibraryInv, RowsOK, Shown
  <2> QED
    BY <1>0, <1>2, <1>3, <1>12, <2>1, <2>2, <2>4, <2>6, Advanced DEF Answerless
<1>13. CASE op.step = "unmap" /\ ok
  <2>1. End("refused", op.other, {}) /\ op.kind = "import" /\ op.other \notin DOMAIN doc
    BY <1>13, CalledIs DEF TakeAnswer
  <2>2. op.other \in Ids
    BY <1>1, <1>2, <1>13, <2>1 DEF ImportOK
  <2> QED
    BY <1>3, <1>13, <2>1, <2>2, EndedUncertain DEF Answerless
<1>14. CASE op.step = "forget" /\ ok
  <2>1. End("deleted", op.id, {}) /\ op.kind = "delete" /\ op.id \notin DOMAIN doc
    BY <1>14, CalledIs DEF TakeAnswer
  <2>2. op.id \notin DOMAIN rows
    BY <1>0, <1>1, <1>14 DEF LibraryInv, OpOK
  <2>3. unsettled' = unsettled \ {op.id}
    BY <2>1 DEF End
  <2>4. \A i \in DOMAIN rows \cap DOMAIN doc : i \notin unsettled' => Shown(i, rows[i])
    <3> SUFFICES ASSUME NEW i \in DOMAIN rows \cap DOMAIN doc, i \notin unsettled'
                 PROVE  Shown(i, rows[i])
      OBVIOUS
    <3>1. ~Doubt(i)
      BY <2>1, <2>2, <2>3 DEF Doubt
    <3> QED
      BY <3>1 DEF LibraryInv, RowsOK
  <2>5. {} \in SUBSET {op.id}
    OBVIOUS
  <2> QED
    BY <1>0, <1>1, <1>2, <1>3, <1>14, <2>1, <2>2, <2>4, <2>5, Ended DEF Answerless
<1> QED
  BY <1>4, <1>5, <1>6, <1>7, <1>8, <1>9, <1>10, <1>11, <1>12, <1>13, <1>14, CalledIs

(* The App reads the next line: it is the answer it waits for, or the call   *)
(* fails.                                                                    *)
LEMMA ReceiveHolds == LibraryInv /\ Receive => LibraryInv'
<1> SUFFICES ASSUME LibraryInv, Receive PROVE LibraryInv'
  OBVIOUS
<1>1. /\ Waiting /\ lines # <<>> /\ lines' = Tail(lines)
      /\ UNCHANGED <<disk, bytes, rows, used, imports, started, worker, thread, doc, scratch, faults>>
  BY DEF Receive, Waiting
<1>2. lines \in Seq(Line) /\ faults' \in Nat
  BY <1>1 DEF LibraryInv, LibraryTypeOK
<1>3. /\ lines' \in Seq(Line) /\ Head(lines) \in Line /\ Head(lines) = lines[1] /\ 1 \in 1..Len(lines)
      /\ Len(lines') = Len(lines) - 1 /\ Len(lines) \in Nat
      /\ \A i \in 1..Len(lines') : i + 1 \in 1..Len(lines) /\ lines'[i] = lines[i + 1]
  <2>1. /\ Tail(lines) \in Seq(Line) /\ Head(lines) \in Line /\ Head(lines) = lines[1]
        /\ 1 \in 1..Len(lines) /\ Len(Tail(lines)) = Len(lines) - 1
        /\ \A i \in 1..Len(Tail(lines)) : i + 1 \in 1..Len(lines) /\ Tail(lines)[i] = lines[i + 1]
    BY <1>1, <1>2, Shifted
  <2> QED
    BY <1>1, <1>2, <2>1
<1>4. \A i \in 1..Len(lines') : IsLine(lines'[i])
  BY <1>3 DEF IsLine
<1>5. \/ lines' = <<>> /\ Len(lines) = 1 /\ (thread = None \/ IsAnswer(thread))
      \/ Len(lines') = 1 /\ thread = None /\ IsAnswer(lines[2]) /\ lines'[1] = lines[2]
  <2>1. \/ Len(lines) = 1 /\ (thread = None \/ IsAnswer(thread))
        \/ Len(lines) = 2 /\ thread = None /\ IsAnswer(lines[2])
    BY <1>1 DEF LibraryInv, QueueOK
  <2>2. CASE Len(lines) = 1
    BY <1>3, <2>1, <2>2
  <2>3. CASE Len(lines) = 2
    BY <1>3, <2>1, <2>3
  <2> QED
    BY <2>1, <2>2, <2>3
<1>6. Answerless
  BY <1>1, <1>2, <1>3, <1>4, <1>5 DEF Answerless
<1>7. CASE ~IsAnswer(Head(lines))
  <2>1. Unanswered
    BY <1>7 DEF Receive
  <2> QED
    BY <1>1, <1>6, <2>1, UnansweredHolds
<1>8. CASE IsAnswer(Head(lines))
  <2>1. TakeAnswer(Head(lines).ok, Head(lines).digest, Head(lines).code)
    BY <1>8 DEF Receive
  <2>2. Head(lines).ok \in BOOLEAN /\ Head(lines).digest \in Digests \cup {None}
    BY <1>3 DEF Line
  <2>3. op.step # "status" => lines' = <<>> /\ thread = None
    <3>1. op.step # "status" => Len(lines) = 1 /\ thread = None
      BY <1>1, <1>3, <1>8 DEF LibraryInv, QueueOK
    <3> QED
      BY <1>5, <3>1, <1>3
  <2>4. op.step = "status" =>
          /\ \A i \in 1..Len(lines') : lines'[i].kind = "status" /\ lines'[i].id = op.id
          /\ thread # None => thread.kind = "status" /\ thread.id = op.id
    <3> SUFFICES ASSUME op.step = "status"
                 PROVE  /\ \A i \in 1..Len(lines') : lines'[i].kind = "status" /\ lines'[i].id = op.id
                        /\ thread # None => thread.kind = "status" /\ thread.id = op.id
      OBVIOUS
    <3>1. \A x : IsAnswer(x) => x.kind = "status" /\ x.id = op.id
      BY <1>1, CalledIs DEF IsAnswer
    <3>2. CASE lines' = <<>> /\ (thread = None \/ IsAnswer(thread))
      BY <3>1, <3>2
    <3>3. CASE Len(lines') = 1 /\ thread = None /\ IsAnswer(lines[2]) /\ lines'[1] = lines[2]
      <4>1. lines'[1].kind = "status" /\ lines'[1].id = op.id
        BY <3>1, <3>3
      <4>2. \A i \in 1..Len(lines') : i = 1
        BY <3>3
      <4> QED
        BY <3>3, <4>1, <4>2
    <3> QED
      BY <1>5, <3>2, <3>3
  <2>5. LineOK(Head(lines))
    BY <1>3 DEF LibraryInv
  <2>6. /\ op.waiting.kind = "import" /\ Head(lines).ok => Shown(op.waiting.id, Head(lines).digest)
        /\ op.waiting.kind = "forget" /\ Head(lines).ok => op.waiting.id \notin DOMAIN doc
    BY <1>8, <2>5 DEF LineOK, IsAnswer
  <2> QED
    BY <1>1, <1>6, <2>1, <2>2, <2>3, <2>4, <2>6, AcceptedHolds
<1> QED
  BY <1>7, <1>8

(* The App waits no longer.                                                  *)
LEMMA GiveUpHolds == LibraryInv /\ GiveUp => LibraryInv'
<1> SUFFICES ASSUME LibraryInv, GiveUp PROVE LibraryInv'
  OBVIOUS
<1>1. /\ Waiting /\ lines = <<>> /\ Unanswered
      /\ UNCHANGED <<disk, bytes, rows, used, imports, started, worker, lines, thread, doc, scratch>>
  BY DEF GiveUp, Waiting, workerVars
<1>2. faults' \in Nat
  <2>1. Fault \/ NoFault
    BY DEF GiveUp
  <2>2. faults \in Nat
    BY DEF LibraryInv, LibraryTypeOK
  <2> QED
    BY <2>1, <2>2 DEF Fault, NoFault
<1>3. Answerless
  BY <1>1, <1>2 DEF Answerless
<1> QED
  BY <1>1, <1>3, UnansweredHolds

(* A call is sent: the worker takes it up, or refuses it because its slot is *)
(* taken.                                                                    *)
LEMMA SendHolds ==
    ASSUME LibraryInv, op # None, op.waiting = None, NEW kind \in Calls,
           NEW id \in 1..imports, Send(kind, id),
           [kind |-> kind, id |-> id] = CallFor(op.step),
           kind = "import" => op.kind = "import" /\ Doubt(id),
           op.step = "import" => kind = "import" /\ id = op.id,
           op.step = "status" => kind = "status",
           op.step \notin {"import", "status"} => kind # "status"
    PROVE  LibraryInv'
<1> DEFINE call == [kind |-> kind, id |-> id]
           o == [op EXCEPT !.waiting = call]
           t == [kind |-> kind, id |-> id, path |-> op.path, step |-> "open",
                 entries |-> None, approved |-> None, before |-> None, digest |-> None,
                 answer |-> None]
<1>1. /\ op \in Operation /\ result = None
      /\ op.kind = "import" => ImportOK
  BY OpIs
<1>2. id \in Ids /\ 1..imports \subseteq Ids
  BY LibraryAssumption DEF LibraryInv, LibraryTypeOK, Ids
<1>3. call \in Command /\ call.kind = kind /\ call.id = id
  BY <1>2 DEF Command
<1>4. /\ op' = o
      /\ \/ worker.up /\ worker.active = None /\ worker' = [worker EXCEPT !.active = kind] /\ thread' = t
         \/ worker' = worker /\ thread' = thread
      /\ UNCHANGED <<disk, bytes, rows, used, result, unsettled, imports, started, lines, doc,
                     scratch, faults>>
  BY DEF Send
<1>5. /\ o \in Operation /\ o.kind = op.kind /\ o.id = op.id /\ o.step = op.step /\ o.path = op.path
      /\ o.digest = op.digest /\ o.other = op.other /\ o.waiting = call
  BY <1>1, <1>3 DEF Operation
<1>6. /\ t \in Thread /\ t.kind = kind /\ t.id = id /\ t.path = op.path /\ t.step = "open"
  <2>1. op.path \in Paths \cup {None}
    BY <1>1 DEF Operation
  <2> QED
    BY <1>2, <2>1 DEF Thread
<1>7. call # None /\ o # None /\ t # None
  BY <1>3, <1>5, <1>6, NoneIsNoRecord
<1>8. call = CallFor(op.step)
  OBVIOUS
<1> HIDE DEF call, o, t
<1>9. CallFor(op.step)' = CallFor(op.step)
  BY <1>4, <1>5 DEF CallFor
<1>10. Waiting' /\ op'.waiting = call /\ ~Waiting
  BY <1>4, <1>5, <1>7 DEF Waiting
<1>11. thread # None => ThreadOK
  BY DEF LibraryInv
<1>12. \/ thread' = thread /\ worker' = worker
       \/ thread = None /\ thread' = t /\ worker.up /\ worker' = [worker EXCEPT !.active = kind]
  BY <1>4, <1>11 DEF ThreadOK
<1>13. lines = <<>> \/ (thread = None /\ Len(lines) = 1)
  BY <1>10 DEF LibraryInv, QueueOK
<1>14. thread' = t => \A x : x = thread' => x.kind = call.kind /\ x.id = call.id
  BY <1>3, <1>6
<1>15. lines # <<>> /\ op.step # "status" => lines[1].kind # kind \/ lines[1].id # id
  <2> SUFFICES ASSUME lines # <<>>, op.step # "status" PROVE lines[1].kind # kind \/ lines[1].id # id
    OBVIOUS
  <2>1. 1 \in 1..Len(lines)
    BY <1>13
  <2>2. CASE op.step = "import"
    <3>1. Fresh(lines[1])
      BY <2>1, <2>2 DEF LibraryInv, OwedOK
    <3> QED
      BY <2>2, <3>1 DEF Fresh
  <2>3. CASE op.step # "import"
    <3>1. Owed(lines[1])
      BY <2>1, <2>3 DEF LibraryInv, OwedOK, Late
    <3> QED
      BY <2>3, <3>1 DEF Owed
  <2> QED
    BY <2>2, <2>3
<1>16. QueueOK'
  <2>1. \A i \in 1..Len(lines') : lines'[i].id \in 1..imports'
    BY <1>4 DEF LibraryInv, QueueOK
  <2>2. \/ lines' = <<>>
        \/ Len(lines') = 1 /\ (thread' = None \/ (thread'.kind = op'.waiting.kind
                                                  /\ thread'.id = op'.waiting.id))
    BY <1>3, <1>4, <1>6, <1>10, <1>12, <1>13
  <2>3. op'.step # "status" /\ lines' # <<>> =>
          ~(lines'[1].kind = op'.waiting.kind /\ lines'[1].id = op'.waiting.id)
    BY <1>3, <1>4, <1>5, <1>10, <1>15
  <2> QED
    BY <1>10, <2>1, <2>2, <2>3 DEF QueueOK, IsAnswer
<1>17. OwedOK'
  <2>1. thread' # thread => thread'.kind = op'.waiting.kind /\ thread'.id = op'.waiting.id
    BY <1>3, <1>6, <1>10, <1>12
  <2>2. op' # None /\ op'.waiting # None /\ op'.kind = op.kind /\ op'.id = op.id /\ op'.step = op.step
    BY <1>4, <1>5, <1>7
  <2>3. lines' = lines
    BY <1>4
  <2>4. Late => \A i \in 1..Len(lines) : op.kind = "delete" /\ lines[i].kind = "status" /\ lines[i].id = op.id
    BY DEF LibraryInv, OwedOK, Owed
  <2>5. Late /\ thread # None => op.kind = "delete" /\ thread.kind = "status" /\ thread.id = op.id
    BY DEF LibraryInv, OwedOK, Owed
  <2>6. op.step = "import" => /\ \A i \in 1..Len(lines) : lines[i].id # op.id
                              /\ thread # None => thread.id # op.id
    BY DEF LibraryInv, OwedOK, Fresh
  <2> QED
    BY <2>1, <2>2, <2>3, <2>4, <2>5, <2>6 DEF OwedOK, Owed, Fresh, Late, IsAnswer
<1>18. \A i : Doubt(i)' <=> Doubt(i)
  BY <1>4, <1>5, <1>7 DEF Doubt
<1>19. ThreadOK'
  <2>1. CASE thread' = thread /\ worker' = worker
    <3>1. thread # None /\ thread.kind = "import" => Doubt(thread.id)
      BY <1>11 DEF ThreadOK
    <3>2. thread # None /\ thread.kind = "import" => Doubt(thread.id)'
      BY <3>1, <2>1, <1>4, <1>5, <1>7 DEF Doubt
    <3> QED
      BY <1>4, <2>1, <3>2, ThreadRests
  <2>2. CASE thread = None /\ thread' = t /\ worker.up /\ worker' = [worker EXCEPT !.active = kind]
    <3>0. worker \in [up : BOOLEAN, active : Calls \cup {None}]
      BY DEF LibraryInv, LibraryTypeOK
    <3>1. worker'.up /\ worker'.active # None
      <4>1. worker'.up = worker.up /\ worker'.active = kind
        BY <2>2, <3>0
      <4> QED
        BY <2>2, <4>1, NoneIsNoRecord
    <3>2. kind = "import" => op.path \in Paths /\ Doubt(id)'
      BY <1>1, <1>18 DEF ImportOK
    <3> QED
      BY <1>4, <1>6, <2>2, <3>1, <3>2 DEF ThreadOK
  <2> QED
    BY <1>12, <2>1, <2>2
<1>20. OpOK'
  <2>1. OpOK
    BY DEF LibraryInv
  <2> QED
    BY <1>4, <1>5, <1>8, <1>9, <1>10, <2>1 DEF OpOK, ImportOK, Shown, Owner
<1>21. RowsOK'
  BY <1>4, <1>18 DEF LibraryInv, RowsOK, Shown
<1>22. ResultOK' /\ OutcomeIsTrue'
  BY <1>1, <1>4 DEF ResultOK, OutcomeIsTrue
<1>23. LibraryTypeOK'
  <2>1. worker' \in [up : BOOLEAN, active : Calls \cup {None}]
    BY <1>12 DEF LibraryInv, LibraryTypeOK
  <2> QED
    BY <1>4, <1>5, <1>6, <1>12, <2>1 DEF LibraryInv, LibraryTypeOK
<1>24. \A i \in 1..Len(lines') : LineOK(lines[i])'
  BY <1>4 DEF LibraryInv, LineOK, Shown
<1>25. DOMAIN doc' \subseteq 1..imports'
  BY <1>4 DEF LibraryInv
<1> QED
  BY <1>16, <1>17, <1>19, <1>20, <1>21, <1>22, <1>23, <1>24, <1>25 DEF LibraryInv

(* The row an import found is of an import that has begun.                   *)
LEMMA OtherIs ==
    ASSUME LibraryInv, op # None, op.kind = "import", op.step \in {"drop", "remap", "unmap"}
    PROVE  op.other \in 1..imports /\ op.other \in Ids
<1>1. op.other \in DOMAIN rows
  BY OpIs DEF ImportOK
<1>2. DOMAIN rows \subseteq 1..imports
  BY DEF LibraryInv, LibraryTypeOK
<1>3. 1..imports \subseteq Ids
  BY LibraryAssumption DEF LibraryInv, LibraryTypeOK, Ids
<1> QED
  BY <1>1, <1>2, <1>3

(* The App sends the call of the step that is due.                           *)
LEMMA SendCommandHolds == LibraryInv /\ SendCommand => LibraryInv'
<1> SUFFICES ASSUME LibraryInv, SendCommand PROVE LibraryInv'
  OBVIOUS
<1>1. op # None /\ op.waiting = None
  BY DEF SendCommand, Due
<1>2. /\ op.id \in 1..imports /\ op.kind \in {"import", "delete", "status"}
      /\ op.kind = "import" => ImportOK
      /\ op.kind = "delete" => op.step \in {"status", "delete row", "forget"}
      /\ op.kind = "status" => op.step = "status"
  BY <1>1, OpIs
<1>3. op.step \in {"import", "undo", "drop", "remap", "unmap"} => op.kind = "import"
  BY <1>2
<1>4. CASE op.step \in {"import", "status"} /\ Send(op.step, op.id)
  <2>1. CallFor(op.step) = [kind |-> op.step, id |-> op.id]
    BY <1>4 DEF CallFor
  <2>2. op.step = "import" => Doubt(op.id)
    BY <1>1, <1>3 DEF Doubt
  <2>3. op.step \in Calls
    BY <1>4 DEF Calls
  <2> QED
    BY <1>1, <1>2, <1>3, <1>4, <2>1, <2>2, <2>3, SendHolds
<1>5. CASE op.step \in {"undo", "drop", "forget"} /\ Send("forget", op.id)
  <2>1. CallFor(op.step) = [kind |-> "forget", id |-> op.id]
    BY <1>5 DEF CallFor
  <2>3. "forget" \in Calls
    BY DEF Calls
  <2> QED
    BY <1>1, <1>2, <1>5, <2>1, <2>3, SendHolds
<1>6. CASE op.step = "remap" /\ Send("import", op.other)
  <2>1. CallFor(op.step) = [kind |-> "import", id |-> op.other]
    BY <1>6 DEF CallFor
  <2>2. op.other \in 1..imports /\ Doubt(op.other)
    BY <1>1, <1>3, <1>6, OtherIs DEF Doubt
  <2>3. "import" \in Calls
    BY DEF Calls
  <2> QED
    BY <1>1, <1>2, <1>3, <1>6, <2>1, <2>2, <2>3, SendHolds
<1>7. CASE op.step = "unmap" /\ Send("forget", op.other)
  <2>1. CallFor(op.step) = [kind |-> "forget", id |-> op.other]
    BY <1>7 DEF CallFor
  <2>2. op.other \in 1..imports
    BY <1>1, <1>3, <1>7, OtherIs
  <2>3. "forget" \in Calls
    BY DEF Calls
  <2> QED
    BY <1>1, <1>2, <1>7, <2>1, <2>2, <2>3, SendHolds
<1> QED
  BY <1>4, <1>5, <1>6, <1>7 DEF SendCommand, Due

(* An operation takes the gate.                                              *)
LEMMA StartHolds ==
    ASSUME LibraryInv, NEW kind \in {"import", "delete", "status"}, NEW step \in {"import", "status"},
           NEW id \in Ids, NEW path \in Paths \cup {None}, Start(kind, step, id, path),
           imports' \in 0..MaxImports, 1..imports \subseteq 1..imports', id \in 1..imports',
           (kind = "import" /\ step = "import" /\ id \notin 1..imports /\ path \in Paths)
             \/ (kind # "import" /\ step = "status")
    PROVE  LibraryInv'
<1> DEFINE o == [kind |-> kind, step |-> step, id |-> id, path |-> path,
                 digest |-> None, other |-> None, waiting |-> None]
<1>1. /\ op = None /\ started' = started + 1 /\ op' = o /\ result' = None
      /\ UNCHANGED <<disk, bytes, rows, used, unsettled, thread, doc, scratch, faults>>
  BY DEF Start
<1>2. /\ o \in Operation /\ o.kind = kind /\ o.step = step /\ o.id = id /\ o.path = path
      /\ o.other = None /\ o.waiting = None
  BY DEF Operation
<1> HIDE DEF o
<1>3. o # None
  BY <1>2, NoneIsNoRecord
<1>4. \/ worker' = worker /\ lines' = lines
      \/ ~worker.up /\ worker' = [up |-> TRUE, active |-> None] /\ lines' = <<>>
  BY DEF Start, EnsureWorker
<1>5. ~worker.up => thread = None
  BY DEF LibraryInv, ThreadOK
<1>6. /\ worker' \in [up : BOOLEAN, active : Calls \cup {None}]
      /\ lines' \in Seq(Line) /\ \A i \in 1..Len(lines') : IsLine(lines'[i])
      /\ lines' = <<>> \/ lines' = lines
  <2>a. LibraryTypeOK
    BY DEF LibraryInv
  <2>b. worker \in [up : BOOLEAN, active : Calls \cup {None}]
    BY <2>a DEF LibraryTypeOK
  <2>1. lines \in Seq(Line)
    BY <2>a DEF LibraryTypeOK
  <2>2. worker' \in [up : BOOLEAN, active : Calls \cup {None}]
    <3>1. [up |-> TRUE, active |-> None] \in [up : BOOLEAN, active : Calls \cup {None}]
      OBVIOUS
    <3> QED
      BY ONLY <3>1, <1>4, <2>b
  <2>3. lines' = <<>> \/ lines' = lines
    BY ONLY <1>4
  <2>4. lines' \in Seq(Line)
    <3>1. <<>> \in Seq(Line)
      OBVIOUS
    <3>2. CASE lines' = <<>>
      BY ONLY <3>1, <3>2
    <3>3. CASE lines' = lines
      BY ONLY <2>1, <3>3
    <3> QED
      BY ONLY <2>3, <3>2, <3>3
  <2>5. \A i \in 1..Len(lines') : IsLine(lines'[i])
    <3>1. CASE lines' = <<>>
      BY ONLY <3>1
    <3>2. CASE lines' = lines
      BY ONLY <3>2 DEF IsLine
    <3> QED
      BY ONLY <2>3, <3>1, <3>2
  <2> QED
    BY ONLY <2>2, <2>3, <2>4, <2>5
<1>7. \A i \in 1..Len(lines') : lines'[i].id \in 1..imports
  BY <1>6 DEF LibraryInv, QueueOK
<1>8. thread # None => thread.id \in 1..imports
  BY DEF LibraryInv, ThreadOK
<1>9. OpOK'
  BY <1>1, <1>2 DEF OpOK, ImportOK, ImportSteps, LibraryInv, LibraryTypeOK
<1>10. QueueOK'
  <2>1. ~Waiting'
    BY <1>1, <1>2 DEF Waiting
  <2>2. lines = <<>> \/ (thread = None /\ Len(lines) = 1)
    BY <1>1 DEF LibraryInv, QueueOK, Waiting
  <2> QED
    BY <1>1, <1>6, <1>7, <2>1, <2>2 DEF QueueOK
<1>11. OwedOK'
  BY <1>1, <1>2, <1>7, <1>8 DEF OwedOK, Late, Fresh
<1>12. \A i : Doubt(i) => Doubt(i)'
  BY <1>1 DEF Doubt
<1>13. RowsOK'
  BY <1>1, <1>12 DEF LibraryInv, RowsOK, Shown
<1>14. ResultOK' /\ OutcomeIsTrue'
  BY <1>1 DEF ResultOK, OutcomeIsTrue
<1>15. thread # None /\ thread.kind = "import" => Doubt(thread.id)'
  BY <1>1 DEF LibraryInv, ThreadOK, Doubt
<1>16. /\ rows' \in UNION {[S -> Digests \cup {None}] : S \in SUBSET (1..imports')}
       /\ started' \in Nat /\ faults' \in Nat /\ unsettled' \subseteq Ids
  <2>1. rows \in UNION {[S -> Digests \cup {None}] : S \in SUBSET (1..imports)}
        /\ started \in Nat /\ faults \in Nat /\ unsettled \subseteq Ids
    BY DEF LibraryInv, LibraryTypeOK
  <2> QED
    BY <1>1, <2>1
<1> QED
  BY <1>1, <1>2, <1>4, <1>5, <1>6, <1>9, <1>10, <1>11, <1>13, <1>14, <1>15, <1>16, AppSteps

(* The three operations of the App begin.                                    *)
LEMMA StartsHold == LibraryInv /\ (ImportMaterial \/ DeleteMaterial \/ MaterialStatus) => LibraryInv'
<1> SUFFICES ASSUME LibraryInv, ImportMaterial \/ DeleteMaterial \/ MaterialStatus PROVE LibraryInv'
  OBVIOUS
<1>1. imports \in 0..MaxImports /\ imports \in Nat /\ MaxImports \in Nat
  BY LibraryAssumption DEF LibraryInv, LibraryTypeOK
<1>2. CASE ImportMaterial
  <2>1. imports < MaxImports /\ imports' = imports + 1
    BY <1>2 DEF ImportMaterial
  <2>2. PICK path \in Paths : Start("import", "import", imports + 1, path)
    BY <1>2 DEF ImportMaterial
  <2>3. /\ imports' \in 0..MaxImports /\ 1..imports \subseteq 1..imports' /\ imports + 1 \in 1..imports'
        /\ imports + 1 \notin 1..imports /\ imports + 1 \in Ids
    BY <1>1, <2>1 DEF Ids
  <2> QED
    BY <2>2, <2>3, StartHolds
<1>3. CASE DeleteMaterial \/ MaterialStatus
  <2>1. PICK kind \in {"delete", "status"}, id \in 1..imports : Start(kind, "status", id, None)
    BY <1>3 DEF DeleteMaterial, MaterialStatus
  <2>2. imports' = imports
    BY <1>3 DEF DeleteMaterial, MaterialStatus
  <2>3. id \in Ids
    BY <1>1 DEF Ids
  <2> QED
    BY <1>1, <2>1, <2>2, <2>3, StartHolds
<1> QED
  BY <1>2, <1>3

(* A call of the control plane leaves the worker alone, and the rows have    *)
(* their type.                                                               *)
LEMMA ControlPlaneRests ==
    ASSUME LibraryInv, op # None, op.waiting = None, ControlPlane
    PROVE  /\ UNCHANGED <<disk, bytes, used, imports, started, worker, lines, thread, doc, scratch>>
           /\ faults' \in Nat
           /\ rows \in UNION {[S -> Digests \cup {None}] : S \in SUBSET (1..imports)}
           /\ lines' \in Seq(Line) /\ \A i \in 1..Len(lines') : IsLine(lines'[i])
           /\ lines' = <<>> \/ (thread = None /\ Len(lines') = 1)
           /\ op.kind = "import" /\ op.step # "import" => lines' = <<>> /\ thread = None
<1>1. UNCHANGED <<disk, bytes, used, imports, started, worker, lines, thread, doc, scratch>>
  BY DEF ControlPlane, workerVars
<1>2. faults' \in Nat
  <2>1. Fault \/ NoFault
    BY DEF ControlPlane, FindByDigest, Register, Recheck, DeleteRow
  <2>2. faults \in Nat
    BY DEF LibraryInv, LibraryTypeOK
  <2> QED
    BY <2>1, <2>2 DEF Fault, NoFault
<1>3. /\ rows \in UNION {[S -> Digests \cup {None}] : S \in SUBSET (1..imports)}
      /\ lines \in Seq(Line)
  BY DEF LibraryInv, LibraryTypeOK
<1>4. lines = <<>> \/ (thread = None /\ Len(lines) = 1)
  BY DEF LibraryInv, QueueOK, Waiting
<1>5. op.kind = "import" /\ op.step # "import" => lines' = <<>> /\ thread = None
  BY <1>1, AtRest
<1> QED
  BY <1>1, <1>2, <1>3, <1>4, <1>5 DEF IsLine

\* A registration goes on to another step.
(* The registration of an import goes on after an answer of the control      *)
(* plane.                                                                    *)
LEMMA RegistrationGoesOn ==
    ASSUME LibraryInv, op # None, op.waiting = None, op.kind = "import",
           op.step \in {"find", "register", "recheck"}, ControlPlane,
           NEW step \in {"register", "recheck", "undo", "drop"}, NEW other \in Ids \cup {None},
           op' = [op EXCEPT !.step = step, !.other = other], UNCHANGED <<result, unsettled>>,
           rows' \in UNION {[S -> Digests \cup {None}] : S \in SUBSET (1..imports)},
           \A i \in DOMAIN rows' : i # op.id => i \in DOMAIN rows /\ rows'[i] = rows[i],
           step = "register" => Owner(op.digest) = {} /\ rows' = rows /\ op.step = "find",
           step = "recheck" => /\ Owner(op.digest) = {}
                               /\ op.id \in DOMAIN rows' => rows'[op.id] = op.digest,
           step = "drop" => other \in Owner(op.digest) /\ rows' = rows /\ op.step = "find",
           step # "drop" => other = None
    PROVE  LibraryInv'
<1>1. /\ op \in Operation /\ ImportOK /\ OpOK /\ result = None
  BY OpIs
<1>2. /\ UNCHANGED <<disk, bytes, used, imports, started, worker, lines, thread, doc, scratch>>
      /\ faults' \in Nat
      /\ lines' \in Seq(Line) /\ \A i \in 1..Len(lines') : IsLine(lines'[i])
      /\ lines' = <<>> /\ thread = None
  BY ControlPlaneRests
<1> DEFINE o == [op EXCEPT !.step = step, !.other = other]
<1>3. /\ o \in Operation /\ o.kind = op.kind /\ o.id = op.id /\ o.step = step /\ o.path = op.path
      /\ o.digest = op.digest /\ o.other = other /\ o.waiting = op.waiting
  BY <1>1 DEF Operation
<1>4. op' = o
  OBVIOUS
<1> HIDE DEF o
<1>5. o # None
  BY <1>3, NoneIsNoRecord
<1>6. ImportOK'
  <2>1. op.id \notin DOMAIN rows \/ op.step = "recheck"
    BY <1>1 DEF ImportOK
  <2>2. op'.path \in Paths /\ op'.step \in ImportSteps
    BY <1>1, <1>3, <1>4 DEF ImportOK, ImportSteps
  <2>3. step \notin {"undo", "recheck"} => op.id \notin DOMAIN rows'
    BY <2>1
  <2>4. step = "recheck" => \A i \in DOMAIN rows' : rows'[i] = op.digest => i = op.id
    BY DEF Owner
  <2>5. Shown(op.id, op.digest)
    BY <1>1 DEF ImportOK
  <2>6. step = "drop" => other \in DOMAIN rows' /\ rows'[other] = op.digest
    BY DEF Owner
  <2> QED
    BY <1>2, <1>3, <1>4, <2>2, <2>3, <2>4, <2>5, <2>6 DEF ImportOK, Owner, Shown
<1>7. OpOK'
  BY <1>1, <1>2, <1>3, <1>4, <1>6 DEF OpOK
<1>8. \A i : ~Doubt(i)' => ~Doubt(i) /\ i # op.id
  BY <1>3, <1>4, <1>5 DEF Doubt
<1>9. RowsOK'
  <2> SUFFICES ASSUME NEW i \in DOMAIN rows' \cap DOMAIN doc', ~Doubt(i)'
               PROVE  i \in DOMAIN doc' /\ bytes'[doc'[i].ident] = rows'[i]
    BY DEF RowsOK, Shown
  <2>1. ~Doubt(i) /\ i # op.id
    BY <1>8
  <2>2. Shown(i, rows[i]) /\ rows'[i] = rows[i]
    BY <1>2, <2>1 DEF LibraryInv, RowsOK
  <2> QED
    BY <1>2, <2>2 DEF Shown
<1> QED
  BY <1>1, <1>2, <1>3, <1>4, <1>7, <1>9, Advanced

\* A registration ends with its row.
(* The registration of an import succeeds: its row has the digest its        *)
(* mapping leads to.                                                         *)
LEMMA RegistrationEnds ==
    ASSUME LibraryInv, op # None, op.waiting = None, op.kind = "import",
           op.step \in {"register", "recheck"}, ControlPlane, End("imported", op.id, {}),
           rows' \in UNION {[S -> Digests \cup {None}] : S \in SUBSET (1..imports)},
           \A i \in DOMAIN rows' : i # op.id => i \in DOMAIN rows /\ rows'[i] = rows[i],
           op.id \in DOMAIN rows', rows'[op.id] = op.digest
    PROVE  LibraryInv'
<1>1. op.id \in Ids /\ ImportOK
  BY OpIs
<1>2. Shown(op.id, op.digest)
  BY <1>1 DEF ImportOK
<1>3. /\ UNCHANGED <<disk, bytes, used, imports, started, worker, lines, thread, doc, scratch>>
      /\ faults' \in Nat
      /\ lines' \in Seq(Line) /\ \A i \in 1..Len(lines') : IsLine(lines'[i])
      /\ lines' = <<>> /\ thread = None
  BY ControlPlaneRests
<1>4. unsettled' = unsettled \ {op.id}
  BY DEF End
<1>5. \A i \in DOMAIN rows' \cap DOMAIN doc : i \notin unsettled' => Shown(i, rows'[i])
  <2> SUFFICES ASSUME NEW i \in DOMAIN rows' \cap DOMAIN doc, i \notin unsettled'
               PROVE  Shown(i, rows'[i])
    OBVIOUS
  <2>1. CASE i = op.id
    BY <1>2, <2>1
  <2>2. CASE i # op.id
    <3>1. ~Doubt(i)
      BY <1>1, <1>4, <2>2 DEF Doubt, ImportOK
    <3> QED
      BY <2>2, <3>1 DEF LibraryInv, RowsOK
  <2> QED
    BY <2>1, <2>2
<1>6. op.id \in DOMAIN rows' \cap DOMAIN doc /\ {} \in SUBSET {op.id}
  BY <1>2 DEF Shown
<1> QED
  BY <1>1, <1>3, <1>5, <1>6, Ended

(* The App asks for a row of the digest.                                     *)
LEMMA FindByDigestHolds == LibraryInv /\ ControlPlane /\ FindByDigest => LibraryInv'
<1> SUFFICES ASSUME LibraryInv, ControlPlane, FindByDigest PROVE LibraryInv'
  OBVIOUS
<1>1. op # None /\ op.step = "find" /\ op.waiting = None /\ rows' = rows
  BY DEF FindByDigest, Due
<1>2. /\ op \in Operation /\ op.kind \in {"import", "delete", "status"}
      /\ op.kind = "import" => ImportOK
      /\ op.kind = "delete" => op.step \in {"status", "delete row", "forget"}
      /\ op.kind = "status" => op.step = "status"
  BY <1>1, OpIs
<1>3. op.kind = "import" /\ op.other = None
  BY <1>1, <1>2 DEF ImportOK
<1>4. rows \in UNION {[S -> Digests \cup {None}] : S \in SUBSET (1..imports)}
  BY DEF LibraryInv, LibraryTypeOK
<1>5. \A step : [op EXCEPT !.step = step] = [op EXCEPT !.step = step, !.other = None]
  BY <1>2, <1>3 DEF Operation
<1>6. CASE Step("undo")
  BY <1>1, <1>3, <1>4, <1>5, <1>6, RegistrationGoesOn DEF Step
<1>7. CASE Owner(op.digest) = {} /\ Step("register")
  BY <1>1, <1>3, <1>4, <1>5, <1>7, RegistrationGoesOn DEF Step
<1>8. CASE \E other \in Owner(op.digest) :
             op' = [op EXCEPT !.step = "drop", !.other = other] /\ UNCHANGED <<result, unsettled>>
  <2>1. PICK other \in Owner(op.digest) :
             op' = [op EXCEPT !.step = "drop", !.other = other] /\ UNCHANGED <<result, unsettled>>
    BY <1>8
  <2>2. other \in Ids
    <3>1. other \in DOMAIN rows
      BY <2>1 DEF Owner
    <3>2. 1..imports \subseteq Ids
      BY LibraryAssumption DEF LibraryInv, LibraryTypeOK, Ids
    <3> QED
      BY <1>4, <3>1, <3>2
  <2> QED
    BY <1>1, <1>3, <1>4, <2>1, <2>2, RegistrationGoesOn
<1> QED
  BY <1>6, <1>7, <1>8 DEF FindByDigest, Found

(* The control plane makes the row, or its answer is lost.                   *)
LEMMA RegisterHolds == LibraryInv /\ ControlPlane /\ Register => LibraryInv'
<1> SUFFICES ASSUME LibraryInv, ControlPlane, Register PROVE LibraryInv'
  OBVIOUS
<1>1. op # None /\ op.step = "register" /\ op.waiting = None
  BY DEF Register, Due
<1>2. /\ op \in Operation /\ op.kind \in {"import", "delete", "status"}
      /\ op.kind = "import" => ImportOK
      /\ op.kind = "delete" => op.step \in {"status", "delete row", "forget"}
      /\ op.kind = "status" => op.step = "status"
      /\ op.id \in 1..imports /\ op.digest \in Digests \cup {None}
  BY <1>1, OpIs
<1>3. op.kind = "import" /\ op.other = None /\ Owner(op.digest) = {} /\ op.id \notin DOMAIN rows
  BY <1>1, <1>2 DEF ImportOK
<1>4. rows \in UNION {[S -> Digests \cup {None}] : S \in SUBSET (1..imports)}
  BY DEF LibraryInv, LibraryTypeOK
<1>5. \A step : [op EXCEPT !.step = step] = [op EXCEPT !.step = step, !.other = None]
  BY <1>2, <1>3 DEF Operation
<1> DEFINE n == Noted(rows, op.id, op.digest)
<1>6. /\ n \in UNION {[S -> Digests \cup {None}] : S \in SUBSET (1..imports)}
      /\ DOMAIN n = DOMAIN rows \cup {op.id} /\ n[op.id] = op.digest
      /\ \A i \in DOMAIN rows : i # op.id => n[i] = rows[i]
  <2>1. n \in UNION {[S -> Digests \cup {None}] : S \in SUBSET (1..imports)}
    BY <1>2, <1>4, NotedType
  <2> QED
    BY <2>1 DEF Noted
<1>7. CASE rows' = n /\ End("imported", op.id, {})
  <2> HIDE DEF n
  <2> QED
    BY <1>1, <1>3, <1>6, <1>7, RegistrationEnds
<1>8. CASE rows' = n /\ Step("recheck")
  <2> HIDE DEF n
  <2> QED
    BY <1>1, <1>3, <1>5, <1>6, <1>8, RegistrationGoesOn DEF Step
<1>9. CASE rows' = rows /\ Step("recheck")
  <2> HIDE DEF n
  <2> QED
    BY <1>1, <1>3, <1>4, <1>5, <1>9, RegistrationGoesOn DEF Step
<1> QED
  BY <1>7, <1>8, <1>9 DEF Register

(* The App asks again after a registration without an answer.                *)
LEMMA RecheckHolds == LibraryInv /\ ControlPlane /\ Recheck => LibraryInv'
<1> SUFFICES ASSUME LibraryInv, ControlPlane, Recheck PROVE LibraryInv'
  OBVIOUS
<1>1. op # None /\ op.step = "recheck" /\ op.waiting = None /\ rows' = rows
  BY DEF Recheck, Due
<1>2. /\ op \in Operation /\ op.kind \in {"import", "delete", "status"}
      /\ op.kind = "import" => ImportOK
      /\ op.kind = "delete" => op.step \in {"status", "delete row", "forget"}
      /\ op.kind = "status" => op.step = "status"
  BY <1>1, OpIs
<1>3. op.kind = "import" /\ op.other = None /\ Owner(op.digest) \subseteq {op.id}
  BY <1>1, <1>2 DEF ImportOK
<1>4. rows \in UNION {[S -> Digests \cup {None}] : S \in SUBSET (1..imports)}
  BY DEF LibraryInv, LibraryTypeOK
<1>5. \A step : [op EXCEPT !.step = step] = [op EXCEPT !.step = step, !.other = None]
  BY <1>2, <1>3 DEF Operation
<1>6. CASE Step("undo")
  BY <1>1, <1>3, <1>4, <1>5, <1>6, RegistrationGoesOn DEF Step
<1>7. CASE Owner(op.digest) = {op.id} /\ End("imported", op.id, {})
  <2>1. op.id \in DOMAIN rows /\ rows[op.id] = op.digest
    BY <1>7 DEF Owner
  <2> QED
    BY <1>1, <1>3, <1>4, <1>7, <2>1, RegistrationEnds
<1> QED
  BY <1>3, <1>6, <1>7 DEF Recheck

(* The control plane deletes the row of a material that no timeline uses.    *)
LEMMA DeleteRowHolds == LibraryInv /\ ControlPlane /\ DeleteRow => LibraryInv'
<1> SUFFICES ASSUME LibraryInv, ControlPlane, DeleteRow PROVE LibraryInv'
  OBVIOUS
<1>1. op # None /\ op.step = "delete row" /\ op.waiting = None
  BY DEF DeleteRow, Due
<1>2. /\ op \in Operation /\ op.kind \in {"import", "delete", "status"} /\ OpOK
      /\ op.kind = "import" => ImportOK
      /\ op.kind = "status" => op.step = "status"
      /\ op.id \in Ids
  BY <1>1, OpIs
<1>3. op.kind = "delete"
  BY <1>1, <1>2 DEF ImportOK, ImportSteps
<1>4. /\ UNCHANGED <<disk, bytes, used, imports, started, worker, lines, thread, doc, scratch>>
      /\ faults' \in Nat
      /\ rows \in UNION {[S -> Digests \cup {None}] : S \in SUBSET (1..imports)}
      /\ lines' \in Seq(Line) /\ \A i \in 1..Len(lines') : IsLine(lines'[i])
      /\ lines' = <<>> \/ (thread = None /\ Len(lines') = 1)
  BY <1>1, ControlPlaneRests
<1>5. /\ \A i \in 1..Len(lines') : lines'[i].kind = "status" /\ lines'[i].id = op.id
      /\ thread # None => thread.kind = "status" /\ thread.id = op.id
  BY <1>1, <1>4 DEF LibraryInv, OwedOK, Late, Owed
<1>6. \A i : ~Doubt(i) <=> i \notin unsettled
  BY <1>3 DEF Doubt
<1> DEFINE n == Forgotten(rows, op.id)
<1>7. /\ n \in UNION {[S -> Digests \cup {None}] : S \in SUBSET (1..imports)}
      /\ DOMAIN n = DOMAIN rows \ {op.id}
      /\ \A i \in DOMAIN n : n[i] = rows[i]
  <2>1. n \in UNION {[S -> Digests \cup {None}] : S \in SUBSET (1..imports)}
    BY <1>4, ForgottenType
  <2> QED
    BY <2>1 DEF Forgotten
<1> HIDE DEF n
<1>8. CASE /\ rows' = rows \/ rows' = n
           /\ \E kind \in {"refused", "control plane"}, doubtful \in SUBSET {op.id} :
                End(kind, op.id, doubtful)
  <2>1. PICK kind \in {"refused", "control plane"}, doubtful \in SUBSET {op.id} :
                End(kind, op.id, doubtful)
    BY <1>8
  <2>2. unsettled' = unsettled \cup doubtful
    BY <2>1 DEF End
  <2>3. \A i \in DOMAIN rows' \cap DOMAIN doc : i \notin unsettled' => Shown(i, rows'[i])
    BY <1>6, <1>7, <1>8, <2>2 DEF LibraryInv, RowsOK
  <2>4. rows' \in UNION {[S -> Digests \cup {None}] : S \in SUBSET (1..imports)}
    BY <1>4, <1>7, <1>8
  <2> QED
    BY <1>1, <1>2, <1>4, <1>5, <2>1, <2>3, <2>4, Ended
<1>9. CASE rows' = n /\ Step("forget")
  <2> DEFINE o == [op EXCEPT !.step = "forget"]
  <2>1. op' = o /\ UNCHANGED <<result, unsettled>>
    BY <1>9 DEF Step
  <2>2. /\ o \in Operation /\ o.kind = op.kind /\ o.id = op.id /\ o.step = "forget"
        /\ o.waiting = op.waiting
    BY <1>2 DEF Operation
  <2> HIDE DEF o
  <2>3. OpOK'
    BY <1>1, <1>2, <1>3, <1>4, <1>7, <1>9, <2>1, <2>2 DEF OpOK
  <2>4. \A i : ~Doubt(i)' => ~Doubt(i)
    BY <1>6, <2>1 DEF Doubt
  <2>5. RowsOK'
    BY <1>4, <1>7, <1>9, <2>4 DEF LibraryInv, RowsOK, Shown
  <2> QED
    BY <1>1, <1>3, <1>4, <1>5, <1>7, <1>9, <2>1, <2>2, <2>3, <2>5, Advanced
<1> QED
  BY <1>8, <1>9 DEF DeleteRow, n

-----------------------------------------------------------------------------
(* The library: the results *)

(* The library begins in the invariant.                                      *)
LEMMA LibraryInitHolds == LibraryInit => LibraryInv
<1> SUFFICES ASSUME LibraryInit PROVE LibraryInv
  OBVIOUS
<1>1. Cardinality(Paths) \in Nat
  BY LibraryAssumption, FS_CardinalityType
<1>2. /\ bytes \in Seq(Digests \cup {None}) /\ Len(bytes) = Cardinality(Paths)
      /\ disk \in [Paths -> (1..Len(bytes)) \cup {None}]
  <2> DEFINE n == Cardinality(Paths)
  <2>1. n \in Nat /\ bytes \in [1..n -> Digests] /\ disk \in [Paths -> 1..n]
    BY <1>1 DEF LibraryInit
  <2> HIDE DEF n
  <2>2. bytes \in [1..n -> Digests \cup {None}]
    BY <2>1
  <2>3. bytes \in Seq(Digests \cup {None}) /\ Len(bytes) = n
    BY <2>1, <2>2
  <2>4. disk \in [Paths -> (1..n) \cup {None}]
    BY <2>1
  <2> QED
    BY <2>3, <2>4 DEF n
<1>3. /\ rows = [i \in {} |-> None] /\ doc = [i \in {} |-> None] /\ used = {} /\ op = None
      /\ result = None /\ unsettled = {} /\ worker = [up |-> FALSE, active |-> None]
      /\ lines = <<>> /\ thread = None /\ scratch = FALSE /\ imports = 0 /\ started = 0 /\ faults = 0
  BY DEF LibraryInit
<1>4. /\ rows \in [{} -> Digests \cup {None}] /\ doc \in [{} -> [path : Paths, ident : Nat]]
      /\ DOMAIN rows = {} /\ DOMAIN doc = {} /\ {} \in SUBSET (1..imports) /\ {} \in SUBSET Ids
  BY <1>3
<1>5. rows \in UNION {[S -> Digests \cup {None}] : S \in SUBSET (1..imports)} /\ doc \in Document
  BY <1>4 DEF Document
<1>6. imports \in 0..MaxImports
  BY <1>3, LibraryAssumption
<1>7. LibraryTypeOK
  <2>1. used \subseteq Ids /\ unsettled \subseteq Ids /\ op \in Operation \cup {None}
        /\ result \in Result \cup {None} /\ thread \in Thread \cup {None}
    BY <1>3
  <2>2. worker \in [up : BOOLEAN, active : Calls \cup {None}]
    BY <1>3
  <2>3. lines \in Seq(Line)
    BY <1>3
  <2>4. \A i \in DOMAIN doc : doc[i].ident \in 1..Len(bytes)
    BY <1>4
  <2>5. scratch \in BOOLEAN /\ started \in Nat /\ faults \in Nat
    BY <1>3
  <2> QED
    BY <2>1, <2>2, <2>3, <2>4, <2>5, <1>2, <1>5, <1>6 DEF LibraryTypeOK
<1>8. OpOK /\ QueueOK /\ OwedOK /\ ThreadOK /\ ResultOK /\ OutcomeIsTrue
  BY <1>3 DEF OpOK, QueueOK, OwedOK, ThreadOK, ResultOK, OutcomeIsTrue, Waiting, Late
<1> QED
  BY <1>3, <1>4, <1>7, <1>8 DEF LibraryInv, RowsOK

(* Every step of the library keeps the invariant.                            *)
LEMMA LibraryStepHolds == LibraryInv /\ [LibraryNext]_libraryVars => LibraryInv'
<1> SUFFICES ASSUME LibraryInv, [LibraryNext]_libraryVars PROVE LibraryInv'
  OBVIOUS
<1>1. CASE UNCHANGED libraryVars
  <2>1. UNCHANGED <<disk, bytes, rows, appVars, workerVars, doc, faults>>
        /\ UNCHANGED <<scratch, used>>
    BY <1>1 DEF libraryVars
  <2>2. scratch' \in BOOLEAN /\ used' \subseteq Ids
    BY <2>1 DEF LibraryInv, LibraryTypeOK
  <2> QED
    BY <2>1, <2>2, LibraryStutters
<1>2. CASE ImportMaterial \/ DeleteMaterial \/ MaterialStatus
  BY <1>2, StartsHold
<1>3. CASE SendCommand
  BY <1>3, SendCommandHolds
<1>4. CASE Receive
  BY <1>4, ReceiveHolds
<1>5. CASE GiveUp
  BY <1>5, GiveUpHolds
<1>6. CASE ControlPlane
  BY <1>6, FindByDigestHolds, RegisterHolds, RecheckHolds, DeleteRowHolds DEF ControlPlane
<1>7. CASE AppExits
  BY <1>7, AppExitsHolds
<1>8. CASE MaterialThread
  BY <1>8, ThreadOpensHolds, ThreadMeasuresHolds, ThreadDigestsHolds, ThreadHoldsHolds,
     ThreadRegistersHolds, ThreadReplacesHolds, ThreadConfirmsHolds DEF MaterialThread
<1>9. CASE WorkerDies
  BY <1>9, WorkerDiesHolds
<1>10. CASE Preview
  BY <1>10, PreviewHolds
<1>11. CASE EditFile
  BY <1>11, EditFileHolds
<1>12. CASE UseInTimeline
  BY <1>12, UseInTimelineHolds
<1> QED
  BY <1>1, <1>2, <1>3, <1>4, <1>5, <1>6, <1>7, <1>8, <1>9, <1>10, <1>11, <1>12 DEF LibraryNext

(* The inductive invariant, for every set of files, every set of digests and *)
(* every bound.                                                              *)
THEOREM LibraryInvariance == LibrarySpec => []LibraryInv
<1> QED
  BY LibraryInitHolds, LibraryStepHolds, PTL DEF LibrarySpec

(* A material that resolves, and that no operation left in doubt, shows      *)
(* bytes of the digest in its row: whatever the user does to the files, the  *)
(* worker dies and answers come late (material_probe.py,                     *)
(* local_material_library.rs).                                               *)
THEOREM LibraryMappingShowsItsRow == LibrarySpec => []MappingShowsItsRow
<1>1. LibraryInv => MappingShowsItsRow
  <2> SUFFICES ASSUME LibraryInv, NEW id \in DOMAIN rows, Resolves(id), ~Unsure(id)
               PROVE  bytes[doc[id].ident] = rows[id]
    BY DEF MappingShowsItsRow
  <2>1. id \in DOMAIN doc /\ ~Doubt(id)
    BY DEF Resolves, Unsure, Doubt
  <2> QED
    BY <2>1 DEF LibraryInv, RowsOK, Shown
<1> QED
  BY <1>1, LibraryInvariance, PTL

(* What the App tells of an import or a deletion that succeeded is so: the   *)
(* row and the mapping are there, or are both gone.                          *)
THEOREM LibraryOutcomeIsTrue == LibrarySpec => []OutcomeIsTrue
<1>1. LibraryInv => OutcomeIsTrue
  BY DEF LibraryInv
<1> QED
  BY <1>1, LibraryInvariance, PTL
=============================================================================
