------------------------- MODULE OAuthRefreshProofs -------------------------
(***************************************************************************)
(* What OAuthRefresh promises for any number of processes, versions and    *)
(* mishaps: its types, that a connection is active exactly while it has    *)
(* tokens for its settings, and that no interleaving loses a grant that    *)
(* its owner did not withdraw.                                             *)
(***************************************************************************)
EXTENDS OAuthRefresh, TLAPS

USE DEF BlockTicks, RequestTicks, StoreTicks, CommitAttempts

(* The tokens of an exchange arrive, whatever settings it was begun for.    *)
Authorizing == \E s \in Settings : Authorize(s)

(* An answer that is being stored names the version it will have.          *)
NextInv ==
    \A w \in Refreshers :
        \/ refresher[w].answer = "issued"
        \/ refresher[w].phase \in {"storing", "sealing"}
        => refresher[w].next # 0

(* Every token row belongs to an active connection and to its settings; an *)
(* active one has a row unless a test reopened it; and a test that may     *)
(* still count found the row when its request was sent.                    *)
GrantInv ==
    /\ row.version # 0 => link.status = "active" /\ row.setting = link.setting
    /\ link.status = "active" /\ ~reopened => row.version # 0
    /\ test.phase = "dispatched" /\ test.current /\ ~test.lost
       => row.version # 0

LEMMA Bounds ==
    /\ 0 \in 0..MaxVersions /\ 0 \in 0..MaxSettings /\ 0 \in 0..MaxRare
    /\ 1 \in Settings
    /\ Versions \subseteq 0..MaxVersions /\ Settings \subseteq 0..MaxSettings
    /\ \A n \in 0..MaxRare : n < MaxRare => n + 1 \in 0..MaxRare
BY OAuthAssumption DEF Versions, Settings

LEMMA TypeInit == OAuthInit => OAuthTypeOK
<1> SUFFICES ASSUME OAuthInit PROVE OAuthTypeOK
  OBVIOUS
<1> USE Bounds
<1>1. link \in LinkRecord
  BY DEF OAuthInit, LinkRecord, Losses
<1>2. row \in TokenRecord
  BY DEF OAuthInit, NoRow, TokenRecord
<1>3. refresher \in [Refreshers -> RefresherRecord]
  BY DEF OAuthInit, Resting, RefresherRecord, Answers
<1>4. service \in ServiceRecord
  BY DEF OAuthInit, ServiceRecord
<1>5. consent \in ConsentRecord /\ test \in TestRecord
  BY DEF OAuthInit, NoConsent, NoTest, ConsentRecord, TestRecord
<1>6. rareEvents \in 0..MaxRare /\ excused \in BOOLEAN /\ reopened \in BOOLEAN
  BY DEF OAuthInit
<1> QED BY <1>1, <1>2, <1>3, <1>4, <1>5, <1>6 DEF OAuthTypeOK

(* The records one process writes: no field leaves its type.               *)
LEMMA RowUpdates ==
    ASSUME OAuthTypeOK
    PROVE  /\ NoRow \in TokenRecord
           /\ \A ticks \in 0..BlockTicks : [row EXCEPT !.blocked = ticks] \in TokenRecord
           /\ \A expiry \in {"fresh", "due", "expired"} :
                 [row EXCEPT !.expiry = expiry] \in TokenRecord
<1> USE Bounds
<1>1. NoRow \in TokenRecord
  BY DEF NoRow, TokenRecord
<1>2. \A ticks \in 0..BlockTicks : [row EXCEPT !.blocked = ticks] \in TokenRecord
  BY DEF OAuthTypeOK, TokenRecord
<1>3. \A expiry \in {"fresh", "due", "expired"} :
         [row EXCEPT !.expiry = expiry] \in TokenRecord
  BY DEF OAuthTypeOK, TokenRecord
<1> QED BY <1>1, <1>2, <1>3

LEMMA RefresherUpdate ==
    ASSUME OAuthTypeOK, NEW w \in Refreshers, NEW r \in RefresherRecord
    PROVE  [refresher EXCEPT ![w] = r] \in [Refreshers -> RefresherRecord]
BY DEF OAuthTypeOK

(* A refresh goes on to a phase with a limit of its own.                   *)
LEMMA TimedUpdate ==
    ASSUME OAuthTypeOK, NEW w \in Refreshers,
           NEW phase \in {"asking", "storing", "sealing"},
           NEW tries \in 0..CommitAttempts, NEW left \in 0..StoreTicks,
           \/ refresher' = [refresher EXCEPT ![w].phase = phase, ![w].left = left]
           \/ refresher' = [refresher EXCEPT ![w].tries = tries, ![w].left = left,
                                             ![w].phase = phase]
    PROVE  refresher' \in [Refreshers -> RefresherRecord]
<1> DEFINE r == refresher[w]
<1>1. r \in RefresherRecord
  BY DEF OAuthTypeOK
<1>2. [r EXCEPT !.phase = phase, !.left = left] \in RefresherRecord
  BY <1>1 DEF RefresherRecord
<1>3. [r EXCEPT !.tries = tries, !.left = left, !.phase = phase]
         \in RefresherRecord
  BY <1>1 DEF RefresherRecord
<1>4. CASE refresher' = [refresher EXCEPT ![w].phase = phase, ![w].left = left]
  <2>1. refresher' = [refresher EXCEPT ![w] = [r EXCEPT !.phase = phase, !.left = left]]
    BY <1>4, Zenon
  <2> QED BY <2>1, <1>2, RefresherUpdate, Zenon
<1>5. CASE refresher' = [refresher EXCEPT ![w].tries = tries, ![w].left = left,
                                          ![w].phase = phase]
  <2>1. refresher' = [refresher EXCEPT ![w] =
                         [r EXCEPT !.tries = tries, !.left = left, !.phase = phase]]
    BY <1>5, Zenon
  <2> QED BY <2>1, <1>3, RefresherUpdate, Zenon
<1> QED BY <1>4, <1>5, Zenon

LEMMA RestType ==
    ASSUME OAuthTypeOK, NEW w \in Refreshers, Rest(w)
    PROVE  refresher' \in [Refreshers -> RefresherRecord]
<1>1. Resting \in RefresherRecord
  BY Bounds DEF Resting, RefresherRecord, Answers
<1> QED BY <1>1, RefresherUpdate DEF Rest

(* Every step of a refresh, one action at a time.                          *)
LEMMA RefresherTypes ==
    ASSUME OAuthTypeOK, OAuthAssumption, NEW w \in Refreshers,
           \/ OpenGrant(w) \/ Claim(w) \/ Issue(w) \/ Refuse(w)
           \/ AnswerOtherwise(w) \/ ActOnFailure(w) \/ LoseGrant(w) \/ LoseFails(w)
           \/ BlockAgain(w) \/ StoreFails(w) \/ CommitRefresh(w)
           \/ Crash(w) \/ Freeze(w)
    PROVE  refresher' \in [Refreshers -> RefresherRecord]
<1> DEFINE r == refresher[w]
<1>1. r \in RefresherRecord
  BY DEF OAuthTypeOK
<1>2. r.answer \in Answers /\ r.tries \in 0..CommitAttempts
      /\ r.left \in 0..StoreTicks
      /\ r.phase \in {"idle", "opened", "asking", "answered", "storing", "sealing"}
  BY <1>1 DEF RefresherRecord
<1> USE Bounds
<1>3. CASE OpenGrant(w)
  <2>1. row \in TokenRecord
    BY DEF OAuthTypeOK
  <2>2. Resting \in RefresherRecord
    BY DEF Resting, RefresherRecord, Answers
  <2>3. \A phase \in {"answered", "opened"}, answer \in {"expired", "none"} :
           [Resting EXCEPT !.version = row.version, !.token = row.token,
                           !.phase = phase, !.answer = answer] \in RefresherRecord
    BY <2>1, <2>2 DEF RefresherRecord, TokenRecord, Answers
  <2> QED BY <1>3, <2>3, RefresherUpdate DEF OpenGrant
<1>4. CASE Claim(w)
  <2>1. CASE Rest(w)
    BY <2>1, RestType
  <2>2. CASE refresher' = [refresher EXCEPT ![w].phase = "asking",
                                            ![w].left = RequestTicks]
    <3>1. RequestTicks \in 0..StoreTicks
      OBVIOUS
    <3>2. \A left \in 0..StoreTicks :
             refresher' = [refresher EXCEPT ![w].phase = "asking", ![w].left = left]
             => refresher' \in [Refreshers -> RefresherRecord]
      BY <1>2, TimedUpdate
    <3> QED BY <2>2, <3>1, <3>2, Zenon
  <2> QED BY <1>4, <2>1, <2>2 DEF Claim
<1>5. ASSUME NEW answer \in Answers, NEW next \in 0..MaxVersions,
             NEW stored \in 0..MaxVersions, Answered(w, answer, next, stored)
      PROVE  refresher' \in [Refreshers -> RefresherRecord]
  <2>1. [r EXCEPT !.phase = "answered", !.answer = answer, !.next = next,
                  !.stored = stored] \in RefresherRecord
    BY <1>1 DEF RefresherRecord
  <2>2. refresher' = [refresher EXCEPT ![w] =
           [r EXCEPT !.phase = "answered", !.answer = answer, !.next = next,
                     !.stored = stored]]
    BY <1>5, Zenon DEF Answered
  <2> HIDE DEF r
  <2> QED BY <2>1, <2>2, RefresherUpdate
<1>6. CASE Issue(w)
  <2>1. service.issued + 1 \in Versions /\ r.token \in 0..MaxVersions
    BY <1>1, <1>6 DEF Issue, RefresherRecord
  <2>2. \/ Answered(w, "issued", service.issued + 1, service.issued + 1)
        \/ Answered(w, "temporary", 0, 0)
        \/ Answered(w, "issued", service.issued + 1, r.token)
    BY <1>6 DEF Issue
  <2> QED BY <1>5, <2>1, <2>2 DEF Answers
<1>7. CASE Refuse(w)
  BY <1>5, <1>7 DEF Refuse, Answers
<1>8. CASE AnswerOtherwise(w)
  BY <1>5, <1>8 DEF AnswerOtherwise, Answers
<1>9. CASE ActOnFailure(w) \/ LoseGrant(w) \/ Crash(w)
  BY <1>9, RestType DEF ActOnFailure, LoseGrant, Crash
<1>10. CASE LoseFails(w)
  <2>1. CASE Rest(w)
    BY <2>1, RestType
  <2>2. CASE ~Rest(w)
    <3>1. [r EXCEPT !.tries = @ + 1] \in RefresherRecord
      BY <1>1, <1>2, <1>10, <2>2 DEF LoseFails, RefresherRecord
    <3> QED BY <1>10, <2>2, <3>1, RefresherUpdate DEF LoseFails
  <2> QED BY <2>1, <2>2
<1>11. CASE BlockAgain(w)
  <2>1. StoreTicks \in 0..StoreTicks
    OBVIOUS
  <2> HIDE DEF StoreTicks
  <2> QED BY <1>2, <1>11, <2>1, TimedUpdate DEF BlockAgain
<1>12. CASE StoreFails(w) \/ CommitRefresh(w)
  <2>1. CASE Rest(w)
    BY <2>1, RestType
  <2>2. CASE ~Rest(w)
    <3>1. r.tries + 1 \in 0..CommitAttempts /\ 0 \in 0..StoreTicks
      BY <1>2, <1>12, <2>2 DEF StoreFails, CommitRefresh
    <3>2. refresher' = [refresher EXCEPT ![w].tries = r.tries + 1, ![w].left = 0,
                                         ![w].phase = "storing"]
      BY <1>12, <2>2, Zenon DEF StoreFails, CommitRefresh
    <3> HIDE DEF StoreTicks, CommitAttempts
    <3> QED BY <3>1, <3>2, TimedUpdate
  <2> QED BY <2>1, <2>2
<1>13. CASE Freeze(w)
  <2>1. [r EXCEPT !.frozen = TRUE] \in RefresherRecord
    <3>1. TRUE \in BOOLEAN
      OBVIOUS
    <3> QED BY <1>1, <3>1 DEF RefresherRecord
  <2> QED BY <1>13, <2>1, RefresherUpdate DEF Freeze
<1> QED BY <1>3, <1>4, <1>6, <1>7, <1>8, <1>9, <1>10, <1>11, <1>12, <1>13

(* A row that is renewed needs the version its answer was given.           *)
LEMMA RefreshRowTypes ==
    ASSUME OAuthTypeOK, NEW w \in Refreshers,
           \/ OpenGrant(w) \/ Claim(w) \/ Issue(w) \/ Refuse(w)
           \/ AnswerOtherwise(w) \/ ActOnFailure(w) \/ LoseGrant(w) \/ LoseFails(w)
           \/ BlockAgain(w) \/ StoreFails(w) \/ CommitRefresh(w)
           \/ Crash(w) \/ Freeze(w)
    PROVE  row' \in TokenRecord
<1>1. row \in TokenRecord /\ refresher[w] \in RefresherRecord
  BY DEF OAuthTypeOK
<1>2. CASE UNCHANGED row
  BY <1>1, <1>2
<1>3. ASSUME NEW ticks \in 0..BlockTicks, BlockFor(w, ticks)
      PROVE  row' \in TokenRecord
  BY <1>1, <1>3, RowUpdates DEF BlockFor
<1>4. CASE Claim(w)
  BY <1>1, <1>4, RowUpdates DEF Claim
<1>5. CASE ActOnFailure(w) \/ BlockAgain(w)
  BY <1>2, <1>3, <1>5 DEF ActOnFailure, BlockAgain
<1>6. CASE LoseGrant(w)
  BY <1>1, <1>6, RowUpdates DEF LoseGrant
<1>7. CASE CommitRefresh(w)
  <2>1. \A version, token \in 0..MaxVersions, ticks \in 0..BlockTicks :
           [row EXCEPT !.version = version, !.token = token, !.blocked = ticks,
                       !.expiry = "fresh"] \in TokenRecord
    BY <1>1 DEF TokenRecord
  <2>2. /\ refresher[w].next \in 0..MaxVersions
        /\ refresher[w].stored \in 0..MaxVersions
        /\ 0 \in 0..BlockTicks
    BY <1>1 DEF RefresherRecord
  <2>3. Renewed(w) \in TokenRecord
    BY <2>1, <2>2 DEF Renewed
  <2> QED BY <1>1, <1>7, <2>3 DEF CommitRefresh
<1> QED BY <1>2, <1>4, <1>5, <1>6, <1>7 DEF OpenGrant, Issue, Refuse,
           AnswerOtherwise, LoseFails, StoreFails, Crash, Freeze

LEMMA RareType ==
    ASSUME OAuthTypeOK, Rare
    PROVE  rareEvents' \in 0..MaxRare
BY OAuthAssumption DEF OAuthTypeOK, Rare

LEMMA TestType ==
    ASSUME OAuthTypeOK, Bump
    PROVE  test' \in TestRecord
<1>1. FALSE \in BOOLEAN /\ test \in TestRecord
  BY DEF OAuthTypeOK
<1> QED BY <1>1 DEF Bump, TestRecord

LEMMA LinkType ==
    ASSUME OAuthTypeOK, NEW status \in {"active", "reauthorize", "revoked"},
           NEW loss \in Losses, NEW setting \in Settings,
           NEW workspace \in BOOLEAN
    PROVE  /\ [link EXCEPT !.status = status] \in LinkRecord
           /\ [link EXCEPT !.status = status, !.loss = loss] \in LinkRecord
           /\ [link EXCEPT !.setting = setting, !.status = status, !.loss = loss]
                 \in LinkRecord
           /\ [link EXCEPT !.workspace = workspace] \in LinkRecord
           /\ [link EXCEPT !.workspace = workspace, !.status = status,
                           !.loss = loss] \in LinkRecord
<1>1. link \in LinkRecord
  BY DEF OAuthTypeOK
<1> QED BY <1>1 DEF LinkRecord

LEMMA RefreshTypes ==
    ASSUME OAuthTypeOK, NEW w \in Refreshers,
           \/ OpenGrant(w) \/ Claim(w) \/ Issue(w) \/ Refuse(w)
           \/ AnswerOtherwise(w) \/ ActOnFailure(w) \/ LoseGrant(w) \/ LoseFails(w)
           \/ BlockAgain(w) \/ StoreFails(w) \/ CommitRefresh(w)
           \/ Crash(w) \/ Freeze(w)
    PROVE  OAuthTypeOK'
<1>1. refresher' \in [Refreshers -> RefresherRecord]
  BY OAuthAssumption, RefresherTypes
<1>2. row' \in TokenRecord
  BY RefreshRowTypes
<1>3. link' \in LinkRecord
  <2>1. CASE LoseGrant(w)
    <3>1. CASE Holds(w)
      <4>1. /\ link' = [link EXCEPT !.status = "reauthorize",
                                    !.loss = refresher[w].answer]
            /\ refresher[w].answer \in Losses
        BY <2>1, <3>1 DEF LoseGrant, Losses
      <4>2. link \in LinkRecord
        BY DEF OAuthTypeOK
      <4> QED BY <4>1, <4>2 DEF LinkRecord
    <3> QED BY <2>1, <3>1 DEF LoseGrant, OAuthTypeOK
  <2>2. CASE ~LoseGrant(w)
    BY <2>2 DEF OAuthTypeOK, OpenGrant, Claim, Issue, Refuse, AnswerOtherwise,
       ActOnFailure, LoseFails, BlockAgain, StoreFails, CommitRefresh, Crash, Freeze
  <2> QED BY <2>1, <2>2
<1>4. service' \in ServiceRecord
  <2>1. service \in ServiceRecord
    BY DEF OAuthTypeOK
  <2>2. CASE Issue(w)
    <3> DEFINE n == service.issued + 1
               t == refresher[w].token
    <3>1. /\ n \in Versions /\ n \in 0..MaxVersions /\ t \in Versions
          /\ service.family[t] \in 0..MaxVersions
      <4>1. n \in Versions /\ t \in service.live
        BY <2>2, Zenon DEF Issue
      <4> HIDE DEF n, t
      <4> QED BY <2>1, <4>1, Bounds DEF ServiceRecord
    <3>2. \/ service' = [service EXCEPT !.issued = n,
                               !.live = (@ \ {t}) \cup {n},
                               !.family[n] = service.family[t]]
          \/ service' = [service EXCEPT !.issued = n]
      BY <2>2 DEF Issue
    <3>3. [service.family EXCEPT ![n] = service.family[t]]
             \in [Versions -> 0..MaxVersions]
      BY <2>1, <3>1 DEF ServiceRecord
    <3>4. (service.live \ {t}) \cup {n} \in SUBSET Versions
      BY <2>1, <3>1 DEF ServiceRecord
    <3> HIDE DEF n, t
    <3> QED BY <2>1, <3>1, <3>2, <3>3, <3>4 DEF ServiceRecord
  <2>3. CASE Refuse(w)
    <3>1. PICK f : service' \in {service, [service EXCEPT !.live =
                                      {t \in @ : service.family[t] # f}]}
      BY <2>3 DEF Refuse
    <3>2. {t \in service.live : service.family[t] # f} \in SUBSET Versions
      BY <2>1 DEF ServiceRecord
    <3> QED BY <2>1, <3>1, <3>2 DEF ServiceRecord
  <2>4. CASE ~Issue(w) /\ ~Refuse(w)
    BY <2>1, <2>4 DEF OpenGrant, Claim, AnswerOtherwise, ActOnFailure, LoseGrant,
       LoseFails, BlockAgain, StoreFails, CommitRefresh, Crash, Freeze
  <2> QED BY <2>2, <2>3, <2>4
<1>5. consent' \in ConsentRecord /\ test' \in TestRecord
  BY TestType DEF OAuthTypeOK, OpenGrant, Claim, Issue, Refuse, AnswerOtherwise,
     ActOnFailure, LoseGrant, LoseFails, BlockAgain, StoreFails, CommitRefresh,
     Crash, Freeze
<1>6. rareEvents' \in 0..MaxRare
  BY RareType DEF OAuthTypeOK, OpenGrant, Claim, Issue, Refuse, AnswerOtherwise,
     ActOnFailure, LoseGrant, LoseFails, BlockAgain, StoreFails, CommitRefresh,
     Crash, Freeze
<1>7. excused' \in BOOLEAN
  BY Zenon DEF OAuthTypeOK, OpenGrant, Claim, Issue, Refuse, AnswerOtherwise,
     ActOnFailure, LoseGrant, LoseFails, BlockAgain, StoreFails, CommitRefresh,
     Crash, Freeze
<1>8. reopened' \in BOOLEAN
  BY Zenon DEF OAuthTypeOK, OpenGrant, Claim, Issue, Refuse, AnswerOtherwise,
     ActOnFailure, LoseGrant, LoseFails, BlockAgain, StoreFails, CommitRefresh,
     Crash, Freeze
<1> QED BY <1>1, <1>2, <1>3, <1>4, <1>5, <1>6, <1>7, <1>8 DEF OAuthTypeOK

LEMMA TickTypes == OAuthTypeOK /\ Tick => OAuthTypeOK'
<1> SUFFICES ASSUME OAuthTypeOK, Tick PROVE OAuthTypeOK'
  OBVIOUS
<1>1. refresher' \in [Refreshers -> RefresherRecord]
  <2>1. ASSUME NEW w \in Refreshers
        PROVE  refresher'[w] \in RefresherRecord
    <3>1. refresher[w] \in RefresherRecord
      BY DEF OAuthTypeOK
    <3>2. \A left \in 0..StoreTicks :
             [refresher[w] EXCEPT !.left = left] \in RefresherRecord
      BY <3>1 DEF RefresherRecord
    <3>3. refresher[w].left = 0 \/ refresher[w].left - 1 \in 0..StoreTicks
      BY <3>1 DEF RefresherRecord
    <3>4. refresher'[w] = IF refresher[w].left = 0 THEN refresher[w]
                          ELSE [refresher[w] EXCEPT !.left = refresher[w].left - 1]
      BY DEF Tick
    <3> HIDE DEF StoreTicks
    <3> QED BY <3>1, <3>2, <3>3, <3>4
  <2>2. refresher' = [w \in Refreshers |-> refresher'[w]]
    BY DEF Tick
  <2> QED BY <2>1, <2>2
<1>2. row' \in TokenRecord
  <2>1. row.blocked - 1 \in 0..BlockTicks
    BY DEF Tick, OAuthTypeOK, TokenRecord
  <2>2. row' = [row EXCEPT !.blocked = row.blocked - 1]
    BY DEF Tick
  <2> HIDE DEF BlockTicks
  <2> QED BY <2>1, <2>2, RowUpdates
<1>3. excused' \in BOOLEAN
  BY Zenon DEF Tick, OAuthTypeOK
<1> QED BY <1>1, <1>2, <1>3, Zenon DEF Tick, OAuthTypeOK

LEMMA CommandTypes ==
    ASSUME OAuthTypeOK, Rotate \/ Revoke \/ RequestDeletion
    PROVE  OAuthTypeOK'
<1>1. DropGrant
  BY DEF Rotate, Revoke, RequestDeletion
<1>2. link \in LinkRecord /\ consent \in ConsentRecord
  BY DEF OAuthTypeOK
<1>3. link' \in LinkRecord
  <2>1. CASE Rotate
    <3>1. link.setting + 1 \in Settings
      <4>1. link.setting \in Settings /\ link.setting < MaxSettings
        BY <1>2, <2>1 DEF Rotate, LinkRecord
      <4> QED BY <4>1, OAuthAssumption DEF Settings
    <3>2. "unauthorized" \in Losses
      BY DEF Losses
    <3> QED BY <1>2, <2>1, <3>1, <3>2 DEF Rotate, LinkRecord
  <2>2. CASE Revoke
    BY <1>2, <2>2 DEF Revoke, LinkRecord
  <2>3. CASE RequestDeletion
    <3>1. \E status \in {"active", "reauthorize", "revoked"}, loss \in Losses :
             link' = [link EXCEPT !.workspace = FALSE, !.status = status,
                                  !.loss = loss]
      BY <1>2, <2>3 DEF RequestDeletion, LinkRecord, Losses
    <3>2. FALSE \in BOOLEAN
      OBVIOUS
    <3> QED BY <1>2, <3>1, <3>2 DEF LinkRecord
  <2> QED BY <2>1, <2>2, <2>3
<1>4. row' \in TokenRecord
  BY <1>1, RowUpdates DEF DropGrant
<1>5. consent' \in ConsentRecord
  BY <1>1, <1>2, Bounds DEF DropGrant, ConsentRecord
<1>6. test' \in TestRecord /\ rareEvents' \in 0..MaxRare
  BY <1>1, TestType, RareType DEF DropGrant
<1>7. reopened' \in BOOLEAN /\ excused' \in BOOLEAN
  BY <1>1, Zenon DEF DropGrant, OAuthTypeOK
<1>8. UNCHANGED <<refresher, service>>
  BY <1>1, Zenon DEF DropGrant
<1> QED BY <1>3, <1>4, <1>5, <1>6, <1>7, <1>8 DEF OAuthTypeOK

LEMMA AuthorizeTypes ==
    ASSUME OAuthTypeOK, NEW s \in Settings, Authorize(s)
    PROVE  OAuthTypeOK'
<1> DEFINE n == service.issued + 1
<1>1. /\ link \in LinkRecord /\ service \in ServiceRecord
      /\ consent \in ConsentRecord
  BY DEF OAuthTypeOK
<1>2. n \in Versions /\ n \in 0..MaxVersions
  BY Bounds DEF Authorize
<1>3. PICK renewable \in BOOLEAN :
         LET token == IF renewable THEN n ELSE 0
         IN  /\ service' = [service EXCEPT !.issued = n, !.family[n] = n,
                               !.live = IF renewable THEN @ \cup {n} ELSE @]
             /\ IF Consented(s)
                THEN /\ row' = [version |-> n, setting |-> s,
                                token |-> token, blocked |-> 0, expiry |-> "fresh"]
                     /\ link' = [link EXCEPT !.status = "active", !.loss = "none"]
                     /\ Bump
                     /\ reopened' = FALSE
                ELSE UNCHANGED <<row, link, test, reopened>>
  BY DEF Authorize
<1>4. service' \in ServiceRecord
  <2>1. [service.family EXCEPT ![n] = n] \in [Versions -> 0..MaxVersions]
    BY <1>1, <1>2 DEF ServiceRecord
  <2>2. (IF renewable THEN service.live \cup {n} ELSE service.live)
           \in SUBSET Versions
    BY <1>1, <1>2 DEF ServiceRecord
  <2>3. service' = [service EXCEPT !.issued = n, !.family[n] = n,
                       !.live = IF renewable THEN @ \cup {n} ELSE @]
    BY <1>3
  <2> HIDE DEF n
  <2> QED BY <1>1, <1>2, <2>1, <2>2, <2>3 DEF ServiceRecord
<1>5. row' \in TokenRecord
  <2>1. s \in 0..MaxSettings /\ 0 \in 0..MaxVersions
    BY Bounds
  <2>2. (IF renewable THEN n ELSE 0) \in 0..MaxVersions
    BY <1>2, <2>1
  <2>3. \/ row' = row
        \/ row' = [version |-> n, setting |-> s,
                   token |-> IF renewable THEN n ELSE 0, blocked |-> 0,
                   expiry |-> "fresh"]
    BY <1>3
  <2> HIDE DEF n
  <2> QED BY <1>2, <2>1, <2>2, <2>3 DEF OAuthTypeOK, TokenRecord
<1>6. link' \in LinkRecord
  <2>1. "none" \in Losses
    BY DEF Losses
  <2>2. link' = link \/ link' = [link EXCEPT !.status = "active", !.loss = "none"]
    BY <1>3
  <2> QED BY <1>1, <2>1, <2>2 DEF LinkRecord
<1>7. test' \in TestRecord
  <2>1. Bump \/ test' = test
    BY <1>3, Zenon
  <2> QED BY <2>1, TestType DEF OAuthTypeOK
<1>8. reopened' \in BOOLEAN
  <2>1. reopened' = FALSE \/ reopened' = reopened
    BY <1>3, Zenon
  <2> QED BY <2>1, Zenon DEF OAuthTypeOK
<1>9. consent' \in ConsentRecord
  <2>1. consent.exchanges \in [Settings -> Nat] /\ consent.exchanges[s] > 0
    BY <1>1 DEF Authorize, ConsentRecord
  <2>2. [consent.exchanges EXCEPT ![s] = @ - 1] \in [Settings -> Nat]
    BY <2>1
  <2>3. consent' = [consent EXCEPT !.exchanges =
                       [consent.exchanges EXCEPT ![s] = @ - 1]]
    BY <1>1 DEF Authorize, ConsentRecord
  <2> QED BY <1>1, <2>2, <2>3 DEF ConsentRecord
<1>10. UNCHANGED <<refresher, rareEvents, excused>>
  BY DEF Authorize
<1> QED BY <1>4, <1>5, <1>6, <1>7, <1>8, <1>9, <1>10, Zenon DEF OAuthTypeOK

LEMMA TestTypes ==
    ASSUME OAuthTypeOK, BeginTest \/ TestToken \/ TestDispatched \/ TestEnds
    PROVE  OAuthTypeOK'
<1>1. /\ link \in LinkRecord /\ test \in TestRecord
      /\ TRUE \in BOOLEAN /\ FALSE \in BOOLEAN
      /\ (row.version = 0) \in BOOLEAN
  BY DEF OAuthTypeOK
<1>2. NoTest \in TestRecord
  BY Bounds, <1>1 DEF NoTest, TestRecord
<1>3. test' \in TestRecord
  <2>1. link.setting \in 0..MaxSettings
    BY <1>1, Bounds DEF LinkRecord
  <2>2. \A lost \in BOOLEAN :
           [test EXCEPT !.phase = "dispatched", !.current = TRUE, !.lost = lost]
              \in TestRecord
    BY <1>1 DEF TestRecord
  <2>3. [NoTest EXCEPT !.phase = "claimed", !.setting = link.setting,
                       !.current = TRUE] \in TestRecord
    BY <1>1, <1>2, <2>1 DEF TestRecord
  <2>4. [test EXCEPT !.phase = "holding"] \in TestRecord
    BY <1>1 DEF TestRecord
  <2>5. CASE BeginTest
    BY <2>3, <2>5 DEF BeginTest
  <2>6. CASE TestToken
    BY <1>2, <2>4, <2>6 DEF TestToken
  <2>7. CASE TestDispatched
    <3>1. \/ test' = NoTest
          \/ test' = [test EXCEPT !.phase = "dispatched", !.current = TRUE,
                                  !.lost = (row.version = 0)]
      BY <2>7 DEF TestDispatched
    <3>2. [test EXCEPT !.phase = "dispatched", !.current = TRUE,
                       !.lost = (row.version = 0)] \in TestRecord
      BY <1>1, <2>2, Zenon
    <3> QED BY <1>2, <3>1, <3>2, Zenon
  <2>8. CASE TestEnds
    BY <1>2, <2>8 DEF TestEnds
  <2> QED BY <2>5, <2>6, <2>7, <2>8
<1>4. link' \in LinkRecord
  <2>1. [link EXCEPT !.status = "active", !.loss = "none"] \in LinkRecord
    BY <1>1 DEF LinkRecord, Losses
  <2> QED BY <1>1, <2>1 DEF BeginTest, TestToken, TestDispatched, TestEnds
<1>5. rareEvents' \in 0..MaxRare
  BY RareType DEF BeginTest, TestToken, TestDispatched, TestEnds, OAuthTypeOK
<1>6. reopened' \in BOOLEAN
  BY Zenon DEF BeginTest, TestToken, TestDispatched, TestEnds, OAuthTypeOK
<1>7. UNCHANGED <<row, refresher, service, consent, excused>>
  BY Zenon DEF BeginTest, TestToken, TestDispatched, TestEnds
<1> QED BY <1>3, <1>4, <1>5, <1>6, <1>7, Zenon DEF OAuthTypeOK

LEMMA TypeStep == OAuthTypeOK /\ [OAuthNext]_oauthVars => OAuthTypeOK'
<1> SUFFICES ASSUME OAuthTypeOK, [OAuthNext]_oauthVars PROVE OAuthTypeOK'
  OBVIOUS
<1>1. ASSUME NEW w \in Refreshers,
             \/ OpenGrant(w) \/ Claim(w) \/ Issue(w) \/ Refuse(w)
             \/ AnswerOtherwise(w) \/ ActOnFailure(w) \/ LoseGrant(w) \/ LoseFails(w)
             \/ BlockAgain(w) \/ StoreFails(w) \/ CommitRefresh(w)
             \/ Crash(w) \/ Freeze(w)
      PROVE  OAuthTypeOK'
  BY <1>1, RefreshTypes, Zenon
<1>2. CASE Tick
  BY <1>2, TickTypes
<1>3. CASE Age \/ RejectToken
  <2>1. row' \in TokenRecord /\ rareEvents' \in 0..MaxRare
    BY <1>3, RowUpdates, RareType DEF Age, RejectToken, OAuthTypeOK
  <2> QED BY <1>3, <2>1, Zenon DEF Age, RejectToken, OAuthTypeOK
<1>4. CASE Withdraw
  <2>1. service' \in ServiceRecord
    <3>1. TRUE \in BOOLEAN /\ service \in ServiceRecord
      BY DEF OAuthTypeOK
    <3> QED BY <1>4, <3>1 DEF Withdraw, ServiceRecord
  <2>2. rareEvents' \in 0..MaxRare
    BY <1>4, RareType DEF Withdraw
  <2> QED BY <1>4, <2>1, <2>2, Zenon DEF Withdraw, OAuthTypeOK
<1>5. CASE StartConsent
  <2>1. consent' \in ConsentRecord
    BY <1>5, Bounds DEF StartConsent, OAuthTypeOK, LinkRecord, ConsentRecord
  <2>2. rareEvents' \in 0..MaxRare
    BY <1>5, RareType DEF StartConsent
  <2> QED BY <1>5, <2>1, <2>2, Zenon DEF StartConsent, OAuthTypeOK
<1>6. CASE ConsumeConsent
  <2>1. consent' \in ConsentRecord
    <3>1. /\ consent \in ConsentRecord /\ 0 \in 0..MaxSettings
          /\ consent.exchanges \in [Settings -> Nat] /\ link.setting \in Settings
      BY Bounds DEF OAuthTypeOK, ConsentRecord, LinkRecord
    <3>2. [consent.exchanges EXCEPT ![link.setting] = @ + 1] \in [Settings -> Nat]
      BY <3>1
    <3>3. \/ consent' = [consent EXCEPT !.pending = 0]
          \/ consent' = [consent EXCEPT !.pending = 0, !.exchanges =
                            [consent.exchanges EXCEPT ![link.setting] = @ + 1]]
      BY <1>6, <3>1 DEF ConsumeConsent, ConsentRecord
    <3> QED BY <3>1, <3>2, <3>3 DEF ConsentRecord
  <2> QED BY <1>6, <2>1, Zenon DEF ConsumeConsent, OAuthTypeOK
<1>7. ASSUME NEW s \in Settings, Authorize(s) PROVE OAuthTypeOK'
  BY <1>7, AuthorizeTypes
<1>8. CASE Rotate \/ Revoke \/ RequestDeletion
  BY <1>8, CommandTypes
<1>9. CASE Restore
  <2>1. link' \in LinkRecord
    <3>1. TRUE \in BOOLEAN /\ link \in LinkRecord
      BY DEF OAuthTypeOK
    <3> QED BY <1>9, <3>1 DEF Restore, LinkRecord
  <2> QED BY <1>9, <2>1, Zenon DEF Restore, OAuthTypeOK
<1>10. CASE BeginTest \/ TestToken \/ TestDispatched \/ TestEnds
  BY <1>10, TestTypes
<1>11. CASE UNCHANGED oauthVars
  BY <1>11, Zenon DEF oauthVars, OAuthTypeOK
<1> QED BY <1>1, <1>2, <1>3, <1>4, <1>5, <1>6, <1>7, <1>8, <1>9, <1>10, <1>11
        DEF OAuthNext

(* The rows and the memory of a connection and of its refreshes keep their *)
(* types: above all a version is 0 or one the service issued, and a block  *)
(* never outlasts its three ticks.                                         *)
THEOREM OAuthTypeCorrect == OAuthSpec => []OAuthTypeOK
BY TypeInit, TypeStep, PTL DEF OAuthSpec

(* A token row is written with the version of an issued answer only.       *)
LEMMA NextInit == OAuthInit => NextInv
BY DEF OAuthInit, NextInv, Resting

LEMMA NextStep ==
    OAuthTypeOK /\ NextInv /\ [OAuthNext]_oauthVars => NextInv'
<1> SUFFICES ASSUME OAuthTypeOK, NextInv, [OAuthNext]_oauthVars PROVE NextInv'
  OBVIOUS
<1>1. refresher \in [Refreshers -> RefresherRecord]
  BY DEF OAuthTypeOK
<1>2. ASSUME NEW w \in Refreshers,
             \/ OpenGrant(w) \/ Claim(w) \/ Issue(w) \/ Refuse(w)
             \/ AnswerOtherwise(w) \/ ActOnFailure(w) \/ LoseGrant(w) \/ LoseFails(w)
             \/ BlockAgain(w) \/ StoreFails(w) \/ CommitRefresh(w)
             \/ Crash(w) \/ Freeze(w)
      PROVE  NextInv'
  <2>1. CASE Rest(w)
    BY <1>1, <2>1 DEF Rest, Resting, NextInv, RefresherRecord
  <2>2. CASE OpenGrant(w)
    BY <1>1, <2>2 DEF OpenGrant, Resting, NextInv, RefresherRecord
  <2>3. CASE Claim(w) /\ ~Rest(w)
    BY <1>1, <2>3 DEF Claim, NextInv, RefresherRecord
  <2>4. CASE Issue(w)
    <3>1. service.issued + 1 # 0
      BY <2>4 DEF Issue, Versions
    <3>2. \/ \E stored \in {service.issued + 1, refresher[w].token} :
                Answered(w, "issued", service.issued + 1, stored)
          \/ Answered(w, "temporary", 0, 0)
      BY <2>4 DEF Issue
    <3> QED BY <1>1, <3>1, <3>2 DEF Answered, NextInv, RefresherRecord
  <2>5. CASE Refuse(w) \/ AnswerOtherwise(w)
    BY <1>1, <2>5 DEF Refuse, AnswerOtherwise, Answered, NextInv, RefresherRecord
  <2>6. CASE LoseFails(w) /\ ~Rest(w)
    BY <1>1, <2>6 DEF LoseFails, NextInv, RefresherRecord
  <2>7. CASE BlockAgain(w)
    BY <1>1, <2>7 DEF BlockAgain, NextInv, RefresherRecord
  <2>8. CASE (StoreFails(w) \/ CommitRefresh(w)) /\ ~Rest(w)
    BY <1>1, <2>8 DEF StoreFails, CommitRefresh, NextInv, RefresherRecord
  <2>9. CASE Freeze(w)
    BY <1>1, <2>9 DEF Freeze, NextInv, RefresherRecord
  <2> QED BY <1>2, <2>1, <2>2, <2>3, <2>4, <2>5, <2>6, <2>7, <2>8, <2>9
          DEF ActOnFailure, LoseGrant, Crash
<1>3. CASE Tick
  <2>1. \A w \in Refreshers : /\ refresher'[w].answer = refresher[w].answer
                              /\ refresher'[w].phase = refresher[w].phase
                              /\ refresher'[w].next = refresher[w].next
    BY <1>1, <1>3 DEF Tick, RefresherRecord
  <2> QED BY <2>1 DEF NextInv
<1>4. CASE UNCHANGED refresher
  BY <1>4 DEF NextInv
<1> QED BY <1>2, <1>3, <1>4 DEF OAuthNext, Age, RejectToken, Withdraw,
        StartConsent, ConsumeConsent, Authorize, Rotate, Revoke, RequestDeletion,
        DropGrant, Restore, BeginTest, TestToken, TestDispatched, TestEnds, oauthVars

LEMMA GrantInit == OAuthInit => GrantInv
BY DEF OAuthInit, GrantInv, NoRow, NoTest

(* A test that began before its connection changed counts no more.         *)
LEMMA BumpEnds ==
    ASSUME OAuthTypeOK, Bump
    PROVE  ~test'.current
<1>1. test' = [test EXCEPT !.current = FALSE]
  BY DEF Bump
<1>2. test \in TestRecord
  BY DEF OAuthTypeOK
<1> QED BY <1>1, <1>2, Zenon DEF TestRecord

LEMMA WithoutGrant ==
    ASSUME row'.version = 0, link'.status # "active", ~test'.current
    PROVE  GrantInv'
BY Zenon DEF GrantInv

(* What a refresh may do to the three records GrantInv speaks of.          *)
LEMMA RefreshKeepsGrant ==
    ASSUME OAuthTypeOK, NextInv, GrantInv, NEW w \in Refreshers,
           \/ OpenGrant(w) \/ Claim(w) \/ Issue(w) \/ Refuse(w)
           \/ AnswerOtherwise(w) \/ ActOnFailure(w) \/ LoseGrant(w) \/ LoseFails(w)
           \/ BlockAgain(w) \/ StoreFails(w) \/ CommitRefresh(w)
           \/ Crash(w) \/ Freeze(w)
    PROVE  GrantInv'
<1>1. /\ link \in LinkRecord /\ row \in TokenRecord /\ test \in TestRecord
      /\ refresher[w] \in RefresherRecord
  BY DEF OAuthTypeOK
<1>2. CASE LoseGrant(w)
  <2>1. CASE Holds(w)
    <3>1. row'.version = 0 /\ link'.status # "active"
      <4>1. /\ row' = NoRow
            /\ link' = [link EXCEPT !.status = "reauthorize",
                                    !.loss = refresher[w].answer]
        BY <1>2, <2>1, Zenon DEF LoseGrant
      <4>2. link'.status = "reauthorize"
        BY <1>1, <4>1 DEF LinkRecord
      <4> QED BY <4>1, <4>2 DEF NoRow
    <3>2. ~test'.current
      BY <1>2, <2>1, BumpEnds DEF LoseGrant
    <3> QED BY <3>1, <3>2, WithoutGrant
  <2>2. CASE ~Holds(w)
    BY <1>2, <2>2 DEF LoseGrant, GrantInv
  <2> QED BY <2>1, <2>2
<1>3. CASE ~LoseGrant(w)
  <2>1. UNCHANGED <<link, test, reopened>>
    BY <1>3, Zenon DEF OpenGrant, Claim, Issue, Refuse, AnswerOtherwise,
       ActOnFailure, LoseFails, BlockAgain, StoreFails, CommitRefresh, Crash, Freeze
  <2>2. row'.setting = row.setting /\ (row'.version # 0 <=> row.version # 0)
    <3>1. CASE row' = row
      BY <3>1
    <3>2. CASE Claim(w)
      BY <1>1, <3>2 DEF Claim, TokenRecord
    <3>3. CASE ActOnFailure(w) \/ BlockAgain(w)
      BY <1>1, <3>3 DEF ActOnFailure, BlockAgain, BlockFor, TokenRecord
    <3>4. CASE CommitRefresh(w)
      <4>1. refresher[w].next # 0
        BY <3>4 DEF CommitRefresh, NextInv
      <4>2. row' = row \/ (Holds(w) /\ row' = Renewed(w))
        BY <3>4 DEF CommitRefresh
      <4> QED BY <1>1, <4>1, <4>2 DEF Holds, Renewed, TokenRecord
    <3> QED BY <1>3, <3>1, <3>2, <3>3, <3>4 DEF OpenGrant, Issue, Refuse,
            AnswerOtherwise, LoseFails, StoreFails, Crash, Freeze
  <2> QED BY <2>1, <2>2 DEF GrantInv
<1> QED BY <1>2, <1>3

LEMMA GrantStep ==
    OAuthTypeOK /\ NextInv /\ GrantInv /\ [OAuthNext]_oauthVars => GrantInv'
<1> SUFFICES ASSUME OAuthTypeOK, NextInv, GrantInv, [OAuthNext]_oauthVars
             PROVE  GrantInv'
  OBVIOUS
<1>1. link \in LinkRecord /\ row \in TokenRecord /\ test \in TestRecord
  BY DEF OAuthTypeOK
<1>2. ASSUME NEW w \in Refreshers,
             \/ OpenGrant(w) \/ Claim(w) \/ Issue(w) \/ Refuse(w)
             \/ AnswerOtherwise(w) \/ ActOnFailure(w) \/ LoseGrant(w) \/ LoseFails(w)
             \/ BlockAgain(w) \/ StoreFails(w) \/ CommitRefresh(w)
             \/ Crash(w) \/ Freeze(w)
      PROVE  GrantInv'
  BY <1>2, RefreshKeepsGrant, Zenon
<1>3. CASE Tick \/ Age \/ RejectToken
  <2>1. row'.setting = row.setting /\ row'.version = row.version
    BY <1>1, <1>3 DEF Tick, Age, RejectToken, TokenRecord
  <2>2. UNCHANGED <<link, test, reopened>>
    BY <1>3, Zenon DEF Tick, Age, RejectToken
  <2> QED BY <2>1, <2>2 DEF GrantInv
<1>4. ASSUME NEW s \in Settings, Authorize(s) PROVE GrantInv'
  <2>1. \/ /\ row'.version = service.issued + 1 /\ row'.setting = s
           /\ link' = [link EXCEPT !.status = "active", !.loss = "none"]
           /\ Bump /\ Consented(s)
        \/ UNCHANGED <<row, link, test, reopened>>
    BY <1>4 DEF Authorize
  <2>2. service.issued + 1 # 0
    BY <1>4 DEF Authorize, Versions
  <2> QED BY <1>1, <2>1, <2>2 DEF GrantInv, Consented, Bump, LinkRecord, TestRecord
<1>5. CASE Rotate \/ Revoke \/ RequestDeletion
  <2>1. DropGrant
    BY <1>5 DEF Rotate, Revoke, RequestDeletion
  <2>2. link'.status # "active"
    <3>1. CASE Rotate
      <4>1. link' = [link EXCEPT !.setting = link.setting + 1,
                                 !.status = "reauthorize", !.loss = "unauthorized"]
        BY <3>1, Zenon DEF Rotate
      <4>2. link'.status = "reauthorize"
        BY <1>1, <4>1 DEF LinkRecord
      <4> QED BY <4>2
    <3>2. CASE Revoke
      BY <1>1, <3>2 DEF Revoke, LinkRecord
    <3>3. CASE RequestDeletion
      BY <1>1, <3>3 DEF RequestDeletion, LinkRecord
    <3> QED BY <1>5, <3>1, <3>2, <3>3
  <2>3. row'.version = 0
    BY <2>1 DEF DropGrant, NoRow
  <2>4. ~test'.current
    BY <2>1, BumpEnds DEF DropGrant
  <2> QED BY <2>2, <2>3, <2>4, WithoutGrant
<1>6. CASE Restore
  BY <1>1, <1>6 DEF Restore, GrantInv, LinkRecord
<1>7. CASE BeginTest \/ TestToken
  <2>1. test'.phase # "dispatched"
    <3>1. CASE BeginTest
      <4>1. test' = [NoTest EXCEPT !.phase = "claimed", !.setting = link.setting,
                                   !.current = TRUE]
        BY <3>1, Zenon DEF BeginTest
      <4>2. test'.phase = "claimed"
        BY <4>1 DEF NoTest
      <4> QED BY <4>2
    <3>2. CASE TestToken
      <4>1. test' = [test EXCEPT !.phase = "holding"] \/ test' = NoTest
        BY <3>2, Zenon DEF TestToken
      <4>2. test'.phase = "holding" \/ test'.phase = "idle"
        BY <1>1, <4>1 DEF NoTest, TestRecord
      <4> QED BY <4>2
    <3> QED BY <1>7, <3>1, <3>2
  <2>2. UNCHANGED <<link, row, reopened>>
    BY <1>7, Zenon DEF BeginTest, TestToken
  <2> QED BY <2>1, <2>2, Zenon DEF GrantInv
<1>8. CASE TestDispatched
  <2>1. UNCHANGED <<link, row, reopened>>
    BY <1>8, Zenon DEF TestDispatched
  <2>2. \/ test'.phase = "idle"
        \/ test'.lost = (row.version = 0)
    BY <1>1, <1>8, Zenon DEF TestDispatched, NoTest, TestRecord
  <2>3. test'.phase = "dispatched" /\ ~test'.lost => row.version # 0
    BY <2>2, Zenon
  <2> QED BY <2>1, <2>3, Zenon DEF GrantInv
<1>9. CASE TestEnds
  <2>1. test'.phase = "idle"
    BY <1>9 DEF TestEnds, NoTest
  <2>2. UNCHANGED row
    BY <1>9, Zenon DEF TestEnds
  <2>3. CASE UNCHANGED <<link, reopened>>
    BY <2>1, <2>2, <2>3 DEF GrantInv
  <2>4. CASE ~UNCHANGED <<link, reopened>>
    <3>1. /\ StillCurrent
          /\ link' = [link EXCEPT !.status = "active", !.loss = "none"]
          /\ reopened' = (reopened \/ test.lost)
          /\ test.phase = "dispatched"
      BY <1>9, <2>4, Zenon DEF TestEnds
    <3>2. link'.status = "active" /\ link'.setting = link.setting
      BY <1>1, <3>1 DEF LinkRecord
    <3>3. test.lost \/ row.version # 0
      BY <3>1, Zenon DEF GrantInv, StillCurrent, SameSettings
    <3>4. reopened' \/ row.version # 0
      BY <3>1, <3>3, Zenon
    <3> QED BY <2>1, <2>2, <3>2, <3>4 DEF GrantInv
  <2> QED BY <2>3, <2>4
<1>10. CASE UNCHANGED <<link, row, test, reopened>>
  BY <1>10 DEF GrantInv
<1> QED BY <1>2, <1>3, <1>4, <1>5, <1>6, <1>7, <1>8, <1>9, <1>10
        DEF OAuthNext, Withdraw, StartConsent, ConsumeConsent, oauthVars

LEMMA GrantCorrect == OAuthSpec => [](OAuthTypeOK /\ NextInv /\ GrantInv)
BY TypeInit, TypeStep, NextInit, NextStep, GrantInit, GrantStep, PTL DEF OAuthSpec

(* A connection is active exactly while it has tokens for its settings,    *)
(* however many processes refresh it and whatever fails, unless a test     *)
(* that began before the grant was lost has reported it active since.      *)
THEOREM ActiveOnlyWithGrant == OAuthSpec => []ActiveHasGrant
<1>1. GrantInv => ActiveHasGrant
  BY Zenon DEF GrantInv, ActiveHasGrant
<1> QED BY <1>1, GrantCorrect, PTL

-----------------------------------------------------------------------------
(* Why a grant is not lost by its own refreshes.                           *)

(* The process has been told of a new version, which it has yet to write.  *)
InHand(w) ==
    \/ refresher[w].phase = "answered" /\ refresher[w].answer = "issued"
    \/ refresher[w].phase \in {"storing", "sealing"}

(* The process that claimed the version the row still has.                 *)
Holder(w) == Timed(w) /\ Holds(w)

(* A process relies on a refresh token when it presents it, and when the   *)
(* row has it, or is to have it, by what the process does next.            *)
Uses(w) == refresher[w].phase = "asking" \/ Holder(w)
Key(w) == IF InHand(w) THEN refresher[w].stored ELSE refresher[w].token

Undisturbed == ~excused /\ ~service.withdrawn

(* Versions grow: nobody holds a later one than the row, so a version that *)
(* the row has left never comes back.                                      *)
Numbered(w) ==
    /\ refresher[w].version <= service.issued
    /\ refresher[w].token <= service.issued
    /\ refresher[w].stored <= service.issued
    /\ refresher[w].next <= service.issued
    /\ row.version # 0 => refresher[w].version <= row.version
    /\ InHand(w) => refresher[w].version < refresher[w].next
    /\ Holds(w) => refresher[w].token = row.token
    /\ refresher[w].phase = "opened" => refresher[w].token # 0

VersionInv ==
    /\ row.version <= service.issued
    /\ row.token <= service.issued
    /\ \A w \in Refreshers : Numbered(w)

(* Until something excuses a loss, a claimed row is blocked for longer than *)
(* its one holder may take, the tokens that processes rely on are live and *)
(* differ, and so is and does that of a row nobody holds.                  *)
BlockInv == \A w \in Refreshers : Holder(w) => row.blocked > refresher[w].left
OneHolder == \A v, w \in Refreshers : Holder(v) /\ Holder(w) => v = w
KeysLive == \A w \in Refreshers : Uses(w) => Key(w) \in service.live
KeysDiffer == \A v, w \in Refreshers : Uses(v) /\ Uses(w) /\ Key(v) = Key(w) => v = w
FreeRowLive ==
    (\A w \in Refreshers : ~Holder(w)) /\ row.token # 0 =>
        /\ row.token \in service.live
        /\ \A w \in Refreshers : Uses(w) => Key(w) # row.token
NoneLost ==
    /\ \A w \in Refreshers : refresher[w].answer # "grant_lost"
    /\ link.loss # "grant_lost"

ClaimInv ==
    Undisturbed =>
        BlockInv /\ OneHolder /\ KeysLive /\ KeysDiffer /\ FreeRowLive /\ NoneLost

LEMMA LossInit == OAuthInit => VersionInv /\ ClaimInv
<1> SUFFICES ASSUME OAuthInit PROVE VersionInv /\ ClaimInv
  OBVIOUS
<1>1. /\ row.version = 0 /\ row.token = 0 /\ service.issued = 0
      /\ link.loss = "unauthorized"
  BY DEF OAuthInit, NoRow
<1>2. ASSUME NEW w \in Refreshers
      PROVE  /\ refresher[w].version = 0 /\ refresher[w].token = 0
             /\ refresher[w].stored = 0 /\ refresher[w].next = 0
             /\ refresher[w].phase = "idle" /\ refresher[w].answer = "none"
  <2>1. refresher[w] = Resting
    BY Zenon DEF OAuthInit
  <2> QED BY <2>1 DEF Resting
<1>3. ASSUME NEW w \in Refreshers
      PROVE  ~InHand(w) /\ ~Holds(w) /\ ~Holder(w) /\ ~Uses(w)
  BY <1>1, <1>2 DEF InHand, Holds, Holder, Timed, Uses
<1>4. VersionInv
  BY <1>1, <1>2, <1>3 DEF VersionInv, Numbered
<1>5. ClaimInv
  BY <1>1, <1>2, <1>3 DEF ClaimInv, BlockInv, OneHolder, KeysLive, KeysDiffer,
     FreeRowLive, NoneLost
<1> QED BY <1>4, <1>5

Refreshing(w) ==
    \/ OpenGrant(w) \/ Claim(w) \/ Issue(w) \/ Refuse(w)
    \/ AnswerOtherwise(w) \/ ActOnFailure(w) \/ LoseGrant(w) \/ LoseFails(w)
    \/ BlockAgain(w) \/ StoreFails(w) \/ CommitRefresh(w)
    \/ Crash(w) \/ Freeze(w)

(* What each step of a refresh does to the memory of its process.          *)
LEMMA OneMoves ==
    ASSUME OAuthTypeOK, NEW w \in Refreshers, Refreshing(w)
    PROVE  \A v \in Refreshers : v # w => refresher'[v] = refresher[v]
<1> SUFFICES ASSUME NEW v \in Refreshers, v # w PROVE refresher'[v] = refresher[v]
  OBVIOUS
<1>1. refresher \in [Refreshers -> RefresherRecord]
  BY DEF OAuthTypeOK
<1>2. CASE OpenGrant(w)
  BY <1>1, <1>2 DEF OpenGrant
<1>3. CASE Claim(w)
  BY <1>1, <1>3 DEF Claim, Rest
<1>4. CASE Issue(w) \/ Refuse(w) \/ AnswerOtherwise(w)
  <2>1. PICK answer, next, stored : Answered(w, answer, next, stored)
    BY <1>4 DEF Issue, Refuse, AnswerOtherwise
  <2> QED BY <1>1, <2>1 DEF Answered
<1>5. CASE ActOnFailure(w) \/ LoseGrant(w) \/ Crash(w)
  BY <1>1, <1>5 DEF ActOnFailure, LoseGrant, Crash, Rest
<1>6. CASE LoseFails(w) \/ Freeze(w)
  BY <1>1, <1>6 DEF LoseFails, Freeze, Rest
<1>7. CASE BlockAgain(w)
  BY <1>1, <1>7 DEF BlockAgain
<1>8. CASE StoreFails(w) \/ CommitRefresh(w)
  BY <1>1, <1>8 DEF StoreFails, CommitRefresh, Rest
<1> QED BY <1>2, <1>3, <1>4, <1>5, <1>6, <1>7, <1>8 DEF Refreshing

LEMMA NumbersTyped ==
    ASSUME OAuthTypeOK
    PROVE  /\ row.version \in Nat /\ row.token \in Nat /\ row.blocked \in Nat
           /\ service.issued \in Nat
BY DEF OAuthTypeOK, TokenRecord, ServiceRecord

LEMMA MemoryTyped ==
    ASSUME OAuthTypeOK, NEW w \in Refreshers
    PROVE  /\ refresher[w].version \in Nat /\ refresher[w].token \in Nat
           /\ refresher[w].stored \in Nat /\ refresher[w].next \in Nat
           /\ refresher[w].left \in Nat
BY DEF OAuthTypeOK, RefresherRecord

(* A row that keeps its version or loses it, and one process that moves.   *)
LEMMA OthersNumbered ==
    ASSUME OAuthTypeOK, OAuthTypeOK', VersionInv, NEW w \in Refreshers,
           \A v \in Refreshers : v # w => refresher'[v] = refresher[v],
           service'.issued >= service.issued,
           row'.version = 0 \/ UNCHANGED <<row.version, row.token>>,
           row'.token <= service'.issued,
           Numbered(w)'
    PROVE  VersionInv'
<1>1. ASSUME NEW v \in Refreshers, v # w PROVE Numbered(v)'
  <2>1. Numbered(v) /\ refresher'[v] = refresher[v]
    BY <1>1 DEF VersionInv
  <2>2. /\ row.version \in Nat /\ row.token \in Nat
        /\ service.issued \in Nat /\ service'.issued \in Nat
    BY DEF OAuthTypeOK, TokenRecord, ServiceRecord
  <2>3. /\ refresher[v].version \in Nat /\ refresher[v].token \in Nat
        /\ refresher[v].stored \in Nat /\ refresher[v].next \in Nat
    BY MemoryTyped
  <2> QED BY <2>1, <2>2, <2>3 DEF Numbered, InHand, Holds
<1>2. row'.version <= service'.issued
  BY DEF VersionInv, OAuthTypeOK, TokenRecord, ServiceRecord
<1> QED BY <1>1, <1>2 DEF VersionInv

(* A process that starts over, or one that keeps its version and row.      *)
LEMMA RestNumbered ==
    ASSUME OAuthTypeOK, OAuthTypeOK', NEW w \in Refreshers, Rest(w)
    PROVE  /\ refresher'[w] = Resting /\ Numbered(w)'
           /\ ~InHand(w)' /\ ~Holds(w)' /\ ~Holder(w)' /\ ~Uses(w)'
<1>1. refresher'[w] = Resting
  BY DEF Rest, OAuthTypeOK
<1>2. row'.version \in Nat /\ row'.token \in Nat /\ service'.issued \in Nat
  BY DEF OAuthTypeOK, TokenRecord, ServiceRecord
<1>3. /\ refresher'[w].version = 0 /\ refresher'[w].token = 0
      /\ refresher'[w].stored = 0 /\ refresher'[w].next = 0
      /\ refresher'[w].phase = "idle" /\ refresher'[w].answer = "none"
  BY <1>1 DEF Resting
<1>4. ~InHand(w)' /\ ~Holds(w)'
  BY <1>3 DEF InHand, Holds
<1>5. ~Holder(w)' /\ ~Uses(w)' /\ Numbered(w)'
  BY <1>2, <1>3, <1>4 DEF Numbered, Holder, Uses
<1> QED BY <1>1, <1>4, <1>5

(* The claim, the answers and the seals keep what a process read.          *)
LEMMA PhaseNumbered ==
    ASSUME OAuthTypeOK, OAuthTypeOK', NEW w \in Refreshers, Numbered(w),
           UNCHANGED <<row.version, row.token>>,
           service'.issued >= service.issued,
           refresher'[w].version = refresher[w].version,
           refresher'[w].token = refresher[w].token,
           refresher'[w].next <= service'.issued,
           refresher'[w].stored <= service'.issued,
           InHand(w)' => refresher[w].version < refresher'[w].next,
           refresher'[w].phase # "opened"
    PROVE  Numbered(w)'
<1>1. row.version \in Nat /\ row.token \in Nat /\ service.issued \in Nat
      /\ service'.issued \in Nat /\ refresher[w].version \in Nat
      /\ refresher[w].token \in Nat
  BY DEF OAuthTypeOK, TokenRecord, ServiceRecord, RefresherRecord
<1>2. InHand(w)' => refresher'[w].version < refresher'[w].next
  OBVIOUS
<1> QED BY <1>1, <1>2 DEF Numbered, Holds

LEMMA RefreshNumbered ==
    ASSUME OAuthTypeOK, OAuthTypeOK', VersionInv, NEW w \in Refreshers, Refreshing(w)
    PROVE  VersionInv'
<1> DEFINE r == refresher[w]
           q == refresher'[w]
<1>1. /\ r \in RefresherRecord /\ row \in TokenRecord /\ Numbered(w)
      /\ refresher \in [Refreshers -> RefresherRecord]
  BY DEF OAuthTypeOK, VersionInv
<1>2. \A v \in Refreshers : v # w => refresher'[v] = refresher[v]
  BY OneMoves
<1>3. /\ row.version \in Nat /\ row.token \in Nat /\ service.issued \in Nat
      /\ service'.issued \in Nat /\ row.token <= service.issued
      /\ row.version <= service.issued
  BY NumbersTyped DEF VersionInv, OAuthTypeOK, ServiceRecord
<1>4. /\ r.version \in Nat /\ r.token \in Nat /\ r.stored \in Nat /\ r.next \in Nat
  BY MemoryTyped
<1>5. ASSUME UNCHANGED <<row.version, row.token>>, service'.issued >= service.issued,
             Numbered(w)'
      PROVE  VersionInv'
  BY <1>2, <1>3, <1>5, OthersNumbered
<1>6. CASE OpenGrant(w)
  <2>1. /\ q.version = row.version /\ q.token = row.token /\ q.stored = 0 /\ q.next = 0
        /\ q.phase = "opened" => q.token # 0
        /\ q.phase \in {"opened", "answered"} /\ q.answer # "issued"
    BY <1>1, <1>6 DEF OpenGrant, Resting
  <2>2. row' = row /\ service' = service
    BY <1>6 DEF OpenGrant
  <2>3. Numbered(w)'
    BY <1>3, <2>1, <2>2 DEF Numbered, Holds, InHand
  <2> QED BY <1>3, <1>5, <2>2, <2>3
<1>7. ASSUME NEW ticks, row' = row \/ row' = [row EXCEPT !.blocked = ticks]
      PROVE  UNCHANGED <<row.version, row.token>>
  BY <1>1, <1>7 DEF TokenRecord
<1>8. CASE Claim(w)
  <2>1. UNCHANGED <<row.version, row.token>> /\ service' = service
    BY <1>7, <1>8 DEF Claim
  <2>2. CASE Rest(w)
    BY <1>3, <1>5, <2>1, <2>2, RestNumbered
  <2>3. CASE ~Rest(w)
    <3>1. refresher' = [refresher EXCEPT ![w].phase = "asking", ![w].left = RequestTicks]
      BY <1>8, <2>3, Zenon DEF Claim
    <3>2. /\ q.version = r.version /\ q.token = r.token /\ q.stored = r.stored
          /\ q.next = r.next /\ q.phase = "asking"
      BY <1>1, <3>1 DEF RefresherRecord
    <3>3. Numbered(w)'
      BY <1>1, <1>3, <1>4, <2>1, <3>2, PhaseNumbered DEF Numbered, InHand
    <3> QED BY <1>3, <1>5, <2>1, <3>3
  <2> QED BY <2>2, <2>3
<1>9. ASSUME NEW answer, NEW next \in Nat, NEW stored \in Nat,
             Answered(w, answer, next, stored), row' = row,
             service'.issued >= service.issued, next <= service'.issued,
             stored <= service'.issued, answer = "issued" => r.version < next
      PROVE  VersionInv'
  <2>1. /\ q.version = r.version /\ q.token = r.token /\ q.stored = stored
        /\ q.next = next /\ q.phase = "answered" /\ q.answer = answer
    BY <1>1, <1>9 DEF Answered, RefresherRecord
  <2>2. InHand(w)' => q.version < q.next
    BY <1>9, <2>1 DEF InHand
  <2>3. Numbered(w)'
    BY <1>1, <1>9, <2>1, <2>2, PhaseNumbered
  <2> QED BY <1>5, <1>9, <2>3
<1>10. CASE Issue(w)
  <2>1. service'.issued = service.issued + 1 /\ row' = row
    BY <1>10 DEF Issue, OAuthTypeOK, ServiceRecord
  <2>2. \/ Answered(w, "issued", service.issued + 1, service.issued + 1)
        \/ Answered(w, "temporary", 0, 0)
        \/ Answered(w, "issued", service.issued + 1, r.token)
    BY <1>10 DEF Issue
  <2>3. r.version <= service.issued /\ r.token <= service.issued
    BY <1>1 DEF Numbered
  <2> QED BY <1>3, <1>4, <1>9, <2>1, <2>2, <2>3
<1>11. CASE Refuse(w) \/ AnswerOtherwise(w)
  <2>1. service'.issued = service.issued /\ row' = row
    BY <1>11 DEF Refuse, AnswerOtherwise, OAuthTypeOK, ServiceRecord
  <2>2. PICK answer : answer # "issued" /\ Answered(w, answer, 0, 0)
    BY <1>11 DEF Refuse, AnswerOtherwise
  <2> QED BY <1>3, <1>9, <2>1, <2>2
<1>12. CASE ActOnFailure(w) \/ Crash(w)
  <2>1. UNCHANGED <<row.version, row.token>>
    BY <1>7, <1>12 DEF ActOnFailure, Crash, BlockFor
  <2>2. Rest(w) /\ service' = service
    BY <1>12 DEF ActOnFailure, Crash
  <2> QED BY <1>3, <1>5, <2>1, <2>2, RestNumbered
<1>13. CASE LoseGrant(w)
  <2>1. row' = row \/ (row'.version = 0 /\ row'.token = 0)
    BY <1>13 DEF LoseGrant, NoRow
  <2>2. Rest(w) /\ service' = service
    BY <1>13 DEF LoseGrant
  <2>3. Numbered(w)'
    BY <2>2, RestNumbered
  <2>4. row'.token <= service'.issued /\ service'.issued >= service.issued
    BY <1>3, <2>1, <2>2
  <2>5. row'.version = 0 \/ UNCHANGED <<row.version, row.token>>
    BY <2>1
  <2> QED BY <1>2, <2>3, <2>4, <2>5, OthersNumbered
<1>14. CASE Freeze(w) \/ LoseFails(w)
  <2>1. row' = row /\ service' = service
    BY <1>14 DEF Freeze, LoseFails
  <2>2. CASE Rest(w)
    BY <1>3, <1>5, <2>1, <2>2, RestNumbered
  <2>3. CASE ~Rest(w)
    <3>1. /\ q.version = r.version /\ q.token = r.token /\ q.stored = r.stored
          /\ q.next = r.next /\ q.phase = r.phase /\ q.answer = r.answer
          /\ q.phase # "opened"
      BY <1>1, <1>14, <2>3 DEF Freeze, LoseFails, RefresherRecord, Timed
    <3>2. Numbered(w)'
      BY <1>1, <1>3, <1>4, <2>1, <3>1, PhaseNumbered DEF Numbered, InHand
    <3> QED BY <1>3, <1>5, <2>1, <3>2
  <2> QED BY <2>2, <2>3
<1>15. ASSUME UNCHANGED <<row.version, row.token>>, service' = service, InHand(w),
              q.version = r.version, q.token = r.token, q.stored = r.stored,
              q.next = r.next, q.phase \in {"storing", "sealing"}
       PROVE  VersionInv'
  <2>1. Numbered(w)'
    BY <1>1, <1>3, <1>4, <1>15, PhaseNumbered DEF Numbered
  <2> QED BY <1>3, <1>5, <1>15, <2>1
<1>16. CASE BlockAgain(w)
  <2>1. UNCHANGED <<row.version, row.token>> /\ service' = service
    BY <1>7, <1>16 DEF BlockAgain, BlockFor
  <2>2. /\ q.version = r.version /\ q.token = r.token /\ q.stored = r.stored
        /\ q.next = r.next /\ q.phase = "sealing" /\ InHand(w)
    BY <1>1, <1>16 DEF BlockAgain, RefresherRecord, InHand
  <2> QED BY <1>15, <2>1, <2>2
<1>17. CASE StoreFails(w)
  <2>1. row' = row /\ service' = service
    BY <1>17 DEF StoreFails
  <2>2. CASE Rest(w)
    BY <1>3, <1>5, <2>1, <2>2, RestNumbered
  <2>3. CASE ~Rest(w)
    <3>1. /\ q.version = r.version /\ q.token = r.token /\ q.stored = r.stored
          /\ q.next = r.next /\ q.phase = "storing" /\ InHand(w)
      BY <1>1, <1>17, <2>3 DEF StoreFails, RefresherRecord, InHand
    <3> QED BY <1>15, <2>1, <3>1
  <2> QED BY <2>2, <2>3
<1>18. CASE CommitRefresh(w)
  <2>1. service' = service /\ InHand(w) /\ r.version < r.next
    BY <1>1, <1>18 DEF CommitRefresh, InHand, Numbered
  <2>2. /\ q.stored <= service'.issued /\ q.next <= service'.issued
        /\ q.version <= r.version /\ q.token <= service'.issued
        /\ q.phase # "opened"
        /\ InHand(w)' => q.version = r.version /\ q.next = r.next
    <3>1. CASE Rest(w)
      <4>1. q = Resting /\ ~InHand(w)'
        BY <3>1, RestNumbered
      <4> QED BY <1>3, <1>4, <2>1, <4>1 DEF Resting
    <3>2. CASE ~Rest(w)
      <4>1. /\ q.version = r.version /\ q.token = r.token /\ q.stored = r.stored
            /\ q.next = r.next /\ q.phase = "storing"
        BY <1>1, <1>18, <3>2 DEF CommitRefresh, RefresherRecord
      <4> QED BY <1>1, <1>4, <2>1, <4>1 DEF Numbered
    <3> QED BY <3>1, <3>2
  <2>3. CASE Holds(w)
    <3>1. row'.version = r.next /\ row'.token = r.stored /\ row.version = r.version
      BY <1>1, <1>18, <2>3 DEF CommitRefresh, Renewed, Holds, TokenRecord
    <3>2. r.next <= service'.issued /\ r.stored <= service'.issued
      BY <1>1, <2>1 DEF Numbered
    <3>3. ASSUME NEW v \in Refreshers
          PROVE  /\ refresher'[v].version < row'.version
                 /\ Numbered(v) /\ (v # w => refresher'[v] = refresher[v])
      <4>1. Numbered(v) /\ (v # w => refresher'[v] = refresher[v])
        BY <1>2 DEF VersionInv
      <4>2. refresher[v].version <= r.version
        BY <2>3, <3>1, <4>1 DEF Numbered, Holds
      <4>3. refresher[v].version \in Nat /\ refresher'[v].version \in Nat
        BY DEF OAuthTypeOK, RefresherRecord
      <4> QED BY <1>4, <2>1, <2>2, <3>1, <4>1, <4>2, <4>3
    <3>4. ASSUME NEW v \in Refreshers PROVE Numbered(v)'
      <4>1. refresher'[v].version \in Nat /\ row'.version \in Nat
        BY DEF OAuthTypeOK, RefresherRecord, TokenRecord
      <4>2. refresher'[v].version < row'.version /\ ~Holds(v)'
        BY <3>3, <4>1 DEF Holds
      <4>3. CASE v = w
        BY <1>3, <1>4, <2>1, <2>2, <3>1, <3>2, <4>1, <4>2, <4>3 DEF Numbered
      <4>4. CASE v # w
        <5>1. Numbered(v) /\ refresher'[v] = refresher[v] /\ (InHand(v)' <=> InHand(v))
          BY <3>3, <4>4 DEF InHand
        <5> QED BY <2>1, <4>1, <4>2, <5>1 DEF Numbered
      <4> QED BY <4>3, <4>4
    <3> QED BY <3>1, <3>2, <3>4 DEF VersionInv
  <2>4. CASE ~Holds(w)
    <3>1. row' = row
      BY <1>18, <2>4 DEF CommitRefresh
    <3>2. Numbered(w)'
      <4>1. CASE Rest(w)
        BY <4>1, RestNumbered
      <4>2. CASE ~Rest(w)
        <5>1. /\ q.version = r.version /\ q.token = r.token /\ q.stored = r.stored
              /\ q.next = r.next /\ q.phase = "storing"
          BY <1>1, <1>18, <4>2 DEF CommitRefresh, RefresherRecord
        <5> QED BY <1>1, <1>3, <1>4, <2>1, <3>1, <5>1, PhaseNumbered DEF Numbered
      <4> QED BY <4>1, <4>2
    <3> QED BY <1>3, <1>5, <2>1, <3>1, <3>2
  <2> QED BY <2>3, <2>4
<1> QED BY <1>6, <1>8, <1>10, <1>11, <1>12, <1>13, <1>14, <1>16, <1>17, <1>18
        DEF Refreshing

(* What is not a refresh does not touch what a process read or was told.   *)
Remembered ==
    \A w \in Refreshers :
        /\ refresher'[w].phase = refresher[w].phase
        /\ refresher'[w].answer = refresher[w].answer
        /\ refresher'[w].version = refresher[w].version
        /\ refresher'[w].token = refresher[w].token
        /\ refresher'[w].stored = refresher[w].stored
        /\ refresher'[w].next = refresher[w].next

Commanding == Rotate \/ Revoke \/ RequestDeletion

(* Neither the row's tokens nor the service's are touched, or only they are *)
(* withdrawn.                                                               *)
Idling ==
    \/ Tick \/ Age \/ RejectToken \/ Withdraw \/ StartConsent \/ ConsumeConsent
    \/ Restore \/ BeginTest \/ TestToken \/ TestDispatched \/ TestEnds
    \/ UNCHANGED oauthVars

LEMMA StepKinds ==
    [OAuthNext]_oauthVars =>
        (\E w \in Refreshers : Refreshing(w)) \/ Commanding \/ Authorizing \/ Idling
BY Zenon DEF OAuthNext, Refreshing, Commanding, Authorizing, Idling

LEMMA IdleRow ==
    ASSUME OAuthTypeOK, Idling
    PROVE  /\ UNCHANGED <<row.version, row.token, service.issued>>
           /\ Remembered
           /\ ~Tick => UNCHANGED <<refresher, row.blocked>>
           /\ ~Withdraw => service' = service
<1>1. row \in TokenRecord /\ refresher \in [Refreshers -> RefresherRecord]
      /\ service \in ServiceRecord
  BY DEF OAuthTypeOK
<1>2. CASE Tick
  <2>1. row' = [row EXCEPT !.blocked = row.blocked - 1] /\ service' = service
    BY <1>2 DEF Tick
  <2>2. UNCHANGED <<row.version, row.token, service.issued>>
    BY <1>1, <2>1 DEF TokenRecord
  <2>3. ASSUME NEW w \in Refreshers
        PROVE  \/ refresher'[w] = refresher[w]
               \/ refresher'[w] = [refresher[w] EXCEPT !.left = refresher[w].left - 1]
    BY <1>2 DEF Tick
  <2>4. Remembered
    <3>1. ASSUME NEW w \in Refreshers
          PROVE  /\ refresher'[w].phase = refresher[w].phase
                 /\ refresher'[w].answer = refresher[w].answer
                 /\ refresher'[w].version = refresher[w].version
                 /\ refresher'[w].token = refresher[w].token
                 /\ refresher'[w].stored = refresher[w].stored
                 /\ refresher'[w].next = refresher[w].next
      BY <1>1, <2>3 DEF RefresherRecord
    <3> QED BY <3>1 DEF Remembered
  <2> QED BY <1>2, <2>1, <2>2, <2>4
<1>3. CASE Age \/ RejectToken
  <2>1. /\ \E expiry : row' = [row EXCEPT !.expiry = expiry]
        /\ UNCHANGED <<service, refresher>>
    BY <1>3 DEF Age, RejectToken
  <2>2. UNCHANGED <<row.version, row.token, row.blocked>>
    BY <1>1, <2>1 DEF TokenRecord
  <2> QED BY <2>1, <2>2 DEF Remembered
<1>4. CASE Withdraw
  <2>1. UNCHANGED <<row, refresher>> /\ service'.issued = service.issued
    BY <1>1, <1>4 DEF Withdraw, ServiceRecord
  <2> QED BY <1>4, <2>1 DEF Remembered
<1>5. CASE UNCHANGED <<row, refresher, service>>
  BY <1>5 DEF Remembered
<1> QED
  BY <1>2, <1>3, <1>4, <1>5 DEF Idling, StartConsent, ConsumeConsent, Restore,
     BeginTest, TestToken, TestDispatched, TestEnds, oauthVars

(* The row goes, or it has a version that nobody has read yet.             *)
LEMMA RowReplaced ==
    ASSUME OAuthTypeOK, VersionInv, Commanding \/ Authorizing
    PROVE  /\ refresher' = refresher
           /\ \/ row' = row
              \/ row'.version = 0 /\ row'.token = 0
              \/ /\ row'.version = service.issued + 1
                 /\ row'.token \in {0, service.issued + 1}
                 /\ row'.token # 0 => service'.live = service.live \cup {row'.token}
           /\ \/ service' = service
              \/ service'.issued = service.issued + 1
           /\ service.live \subseteq service'.live
           /\ service'.withdrawn = service.withdrawn
           /\ row'.token <= service'.issued /\ row'.version <= service'.issued
<1>1. /\ service \in ServiceRecord /\ service.issued \in Nat
      /\ row.token \in Nat /\ row.version \in Nat
      /\ row.token <= service.issued /\ row.version <= service.issued
  BY NumbersTyped DEF OAuthTypeOK, VersionInv
<1>2. CASE Commanding
  <2>1. row' = NoRow /\ UNCHANGED <<refresher, service>>
    BY <1>2 DEF Commanding, Rotate, Revoke, RequestDeletion, DropGrant
  <2> QED BY <1>1, <2>1 DEF NoRow
<1>3. CASE Authorizing
  <2> DEFINE n == service.issued + 1
  <2> PICK s \in Settings : Authorize(s)
    BY <1>3 DEF Authorizing
  <2>1. PICK renewable \in BOOLEAN :
           /\ service' = [service EXCEPT !.issued = n, !.family[n] = n,
                               !.live = IF renewable THEN @ \cup {n} ELSE @]
           /\ \/ row' = [version |-> n, setting |-> s,
                         token |-> IF renewable THEN n ELSE 0, blocked |-> 0,
                         expiry |-> "fresh"]
              \/ row' = row
    BY Zenon DEF Authorize
  <2>2. /\ service'.issued = n /\ service'.withdrawn = service.withdrawn
        /\ service'.live = IF renewable THEN service.live \cup {n} ELSE service.live
    BY <1>1, <2>1 DEF ServiceRecord
  <2>3. \/ row' = row
        \/ row'.version = n /\ row'.token = IF renewable THEN n ELSE 0
    BY <2>1
  <2>4. refresher' = refresher
    BY Zenon DEF Authorize
  <2>5. service.live \subseteq service'.live
    BY <2>2
  <2>6. row'.token <= service'.issued /\ row'.version <= service'.issued
    BY <1>1, <2>2, <2>3
  <2> QED BY <1>1, <2>2, <2>3, <2>4, <2>5, <2>6
<1> QED BY <1>2, <1>3

LEMMA VersionStep ==
    ASSUME OAuthTypeOK, OAuthTypeOK', VersionInv, [OAuthNext]_oauthVars
    PROVE  VersionInv'
<1>1. /\ row.version \in Nat /\ row.token \in Nat /\ service.issued \in Nat
      /\ row'.version \in Nat /\ row'.token \in Nat /\ service'.issued \in Nat
  BY DEF OAuthTypeOK, TokenRecord, ServiceRecord
<1>2. ASSUME NEW w \in Refreshers, Refreshing(w) PROVE VersionInv'
  BY <1>2, RefreshNumbered
<1>3. CASE Commanding \/ Authorizing
  <2>1. /\ refresher' = refresher
        /\ \/ row' = row \/ row'.version = 0 \/ row'.version = service.issued + 1
        /\ service' = service \/ service'.issued = service.issued + 1
        /\ row'.token <= service'.issued /\ row'.version <= service'.issued
    BY <1>3, RowReplaced
  <2>2. ASSUME NEW w \in Refreshers PROVE Numbered(w)'
    <3>1. /\ refresher[w].version \in Nat /\ refresher[w].token \in Nat
          /\ refresher[w].stored \in Nat /\ refresher[w].next \in Nat
      BY MemoryTyped
    <3>2. Numbered(w)
      BY DEF VersionInv
    <3> QED BY <1>1, <2>1, <3>1, <3>2 DEF Numbered, InHand, Holds
  <2> QED BY <2>1, <2>2 DEF VersionInv
<1>4. CASE Idling
  <2>1. UNCHANGED <<row.version, row.token, service.issued>> /\ Remembered
    BY <1>4, IdleRow
  <2>2. ASSUME NEW w \in Refreshers PROVE Numbered(w)'
    BY <2>1 DEF VersionInv, Numbered, InHand, Holds, Remembered
  <2> QED BY <2>1, <2>2 DEF VersionInv
<1> QED BY <1>2, <1>3, <1>4, StepKinds

(* What excuses a loss is never taken back.                                *)
LEMMA ExcusesStay ==
    ASSUME OAuthTypeOK, [OAuthNext]_oauthVars, Undisturbed'
    PROVE  Undisturbed
<1>1. service \in ServiceRecord /\ excused \in BOOLEAN
  BY DEF OAuthTypeOK
<1>2. service'.withdrawn = service.withdrawn \/ service'.withdrawn
  <2>1. ASSUME NEW w \in Refreshers, Issue(w) \/ Refuse(w)
        PROVE  service'.withdrawn = service.withdrawn
    BY <1>1, <2>1 DEF Issue, Refuse, ServiceRecord
  <2>2. ASSUME NEW s \in Settings, Authorize(s)
        PROVE  service'.withdrawn = service.withdrawn
    <3>1. PICK n, renewable :
             service' = [service EXCEPT !.issued = n, !.family[n] = n,
                            !.live = IF renewable THEN @ \cup {n} ELSE @]
      BY <2>2, Zenon DEF Authorize
    <3> QED BY <1>1, <3>1 DEF ServiceRecord
  <2>3. CASE Withdraw
    BY <1>1, <2>3 DEF Withdraw, ServiceRecord
  <2>4. CASE service' = service
    BY <2>4
  <2> QED
    BY <2>1, <2>2, <2>3, <2>4, Zenon DEF OAuthNext, OpenGrant, Claim, AnswerOtherwise,
       ActOnFailure, LoseGrant, LoseFails, BlockAgain, StoreFails, CommitRefresh, Crash,
       Freeze, Tick, Age, RejectToken, StartConsent, ConsumeConsent, Rotate, Revoke,
       RequestDeletion, DropGrant, Restore, BeginTest, TestToken, TestDispatched,
       TestEnds, oauthVars
<1>3. excused => excused'
  BY <1>1, Zenon DEF OAuthNext, OpenGrant, Claim, Issue, Refuse, AnswerOtherwise,
     ActOnFailure, LoseGrant, LoseFails, BlockAgain, StoreFails, CommitRefresh, Crash,
     Freeze, Tick, Age, RejectToken, Withdraw, StartConsent, ConsumeConsent, Authorize,
     Rotate, Revoke, RequestDeletion, DropGrant, Restore, BeginTest, TestToken,
     TestDispatched, TestEnds, oauthVars
<1> QED BY <1>2, <1>3, Zenon DEF Undisturbed

(* The parts of ClaimInv while nothing has excused a loss.                 *)
Claimed == BlockInv /\ OneHolder /\ KeysLive /\ KeysDiffer /\ FreeRowLive /\ NoneLost

(* The row keeps its version and the service its tokens, and one process   *)
(* goes on with what it relies on.                                         *)
LEMMA GoesOn ==
    ASSUME OAuthTypeOK, Claimed, NEW w \in Refreshers,
           \A v \in Refreshers : v # w => refresher'[v] = refresher[v],
           UNCHANGED <<row.version, row.token, service.live>>,
           Uses(w)' => Uses(w) /\ Key(w)' = Key(w),
           Holder(w)' <=> Holder(w),
           Holder(w) => row'.blocked > refresher'[w].left,
           ~Holder(w) => row'.blocked = row.blocked,
           refresher'[w].answer # "grant_lost", link'.loss # "grant_lost"
    PROVE  Claimed'
<1>1. ASSUME NEW v \in Refreshers, v # w
      PROVE  /\ Uses(v)' <=> Uses(v)
             /\ Holder(v)' <=> Holder(v)
             /\ Key(v)' = Key(v) /\ refresher'[v] = refresher[v]
  <2>1. refresher'[v] = refresher[v] /\ row'.version = row.version
    BY <1>1
  <2> QED BY <2>1 DEF Uses, Holder, Holds, Timed, Key, InHand
<1>2. ASSUME NEW v \in Refreshers
      PROVE  (Uses(v)' => Uses(v) /\ Key(v)' = Key(v)) /\ (Holder(v)' <=> Holder(v))
  BY <1>1
<1>3. BlockInv' /\ OneHolder'
  <2>1. ASSUME NEW v \in Refreshers, Holder(v)' PROVE row'.blocked > refresher'[v].left
    <3>1. CASE v = w
      BY <1>2, <2>1, <3>1
    <3>2. CASE v # w
      <4>1. Holder(v) /\ ~Holder(w)
        BY <1>1, <2>1, <3>2 DEF Claimed, OneHolder
      <4> QED BY <1>1, <3>2, <4>1 DEF Claimed, BlockInv
    <3> QED BY <3>1, <3>2
  <2> QED BY <1>2, <2>1 DEF Claimed, BlockInv, OneHolder
<1>4. KeysLive' /\ KeysDiffer'
  BY <1>2 DEF Claimed, KeysLive, KeysDiffer
<1>5. FreeRowLive'
  BY <1>2 DEF Claimed, FreeRowLive
<1>6. NoneLost'
  BY <1>1 DEF Claimed, NoneLost
<1> QED BY <1>3, <1>4, <1>5, <1>6 DEF Claimed

(* The same, and the process lets go of the token that the row has.        *)
LEMMA LetsGo ==
    ASSUME OAuthTypeOK, VersionInv, Claimed, NEW w \in Refreshers,
           \A v \in Refreshers : v # w => refresher'[v] = refresher[v],
           UNCHANGED <<row.version, row.token, service.live>>,
           ~Uses(w)', Holder(w) => ~InHand(w),
           ~Holder(w) => row'.blocked = row.blocked,
           refresher'[w].answer # "grant_lost", link'.loss # "grant_lost"
    PROVE  Claimed'
<1>1. ASSUME NEW v \in Refreshers, v # w
      PROVE  /\ Uses(v)' <=> Uses(v)
             /\ Holder(v)' <=> Holder(v)
             /\ Key(v)' = Key(v) /\ refresher'[v] = refresher[v]
  <2>1. refresher'[v] = refresher[v] /\ row'.version = row.version
    BY <1>1
  <2> QED BY <2>1 DEF Uses, Holder, Holds, Timed, Key, InHand
<1>2. ~Holder(w)'
  BY DEF Uses
<1>3. ASSUME NEW v \in Refreshers, Uses(v)' PROVE v # w /\ Uses(v) /\ Key(v)' = Key(v)
  BY <1>1, <1>3
<1>4. BlockInv' /\ OneHolder'
  <2>1. ASSUME NEW v \in Refreshers, Holder(v)' PROVE row'.blocked > refresher'[v].left
    <3>1. v # w /\ Holder(v) /\ ~Holder(w)
      BY <1>1, <1>2, <2>1 DEF Claimed, OneHolder
    <3> QED BY <1>1, <3>1 DEF Claimed, BlockInv
  <2> QED BY <1>1, <1>2, <2>1 DEF Claimed, BlockInv, OneHolder
<1>5. KeysLive' /\ KeysDiffer'
  BY <1>3 DEF Claimed, KeysLive, KeysDiffer
<1>6. FreeRowLive'
  <2> SUFFICES ASSUME \A v \in Refreshers : ~Holder(v)', row'.token # 0
               PROVE  /\ row.token \in service.live
                      /\ \A v \in Refreshers : Uses(v)' => Key(v)' # row.token
    BY DEF FreeRowLive
  <2>1. CASE Holder(w)
    <3>1. Key(w) = row.token /\ Uses(w)
      BY <2>1 DEF VersionInv, Numbered, Holder, Key, Uses
    <3> QED BY <1>3, <3>1 DEF Claimed, KeysLive, KeysDiffer
  <2>2. CASE ~Holder(w)
    BY <1>1, <1>3, <2>2 DEF Claimed, FreeRowLive
  <2> QED BY <2>1, <2>2
<1>7. NoneLost'
  BY <1>1 DEF Claimed, NoneLost
<1> QED BY <1>4, <1>5, <1>6, <1>7 DEF Claimed

(* The row moves to another version, or goes.                              *)
LEMMA RowMoves ==
    ASSUME Claimed, service.live \subseteq service'.live,
           \A v \in Refreshers : ~Holds(v)',
           \A v \in Refreshers : refresher'[v].phase = "asking"
                                    => refresher'[v] = refresher[v],
           \A v \in Refreshers : refresher'[v].answer # "grant_lost",
           row'.token # 0 => row'.token \in service'.live,
           row'.token # 0 => \A v \in Refreshers : refresher'[v].phase = "asking"
                                    => refresher[v].token # row'.token,
           link'.loss # "grant_lost"
    PROVE  Claimed'
<1>1. ASSUME NEW v \in Refreshers
      PROVE  ~Holder(v)' /\ (Uses(v)' <=> refresher'[v].phase = "asking")
  BY DEF Holder, Uses
<1>2. ASSUME NEW v \in Refreshers, Uses(v)'
      PROVE  /\ Uses(v) /\ Key(v)' = Key(v) /\ Key(v) = refresher[v].token
             /\ refresher'[v].phase = "asking"
  <2>1. refresher'[v] = refresher[v] /\ refresher'[v].phase = "asking"
    BY <1>1, <1>2
  <2> QED BY <2>1 DEF Uses, Key, InHand
<1>3. BlockInv' /\ OneHolder'
  BY <1>1 DEF BlockInv, OneHolder
<1>4. KeysLive' /\ KeysDiffer'
  BY <1>2 DEF Claimed, KeysLive, KeysDiffer
<1>5. FreeRowLive'
  BY <1>2 DEF FreeRowLive
<1> QED BY <1>3, <1>4, <1>5 DEF Claimed, NoneLost

(* Every step of a refresh, while nothing excuses a loss.                  *)
LEMMA RefreshClaimed ==
    ASSUME OAuthTypeOK, OAuthTypeOK', VersionInv, Claimed, Undisturbed, Undisturbed',
           NEW w \in Refreshers, Refreshing(w)
    PROVE  Claimed'
<1> DEFINE r == refresher[w]
           q == refresher'[w]
<1>1. /\ r \in RefresherRecord /\ row \in TokenRecord /\ Numbered(w)
      /\ refresher \in [Refreshers -> RefresherRecord] /\ service \in ServiceRecord
      /\ link \in LinkRecord
  BY DEF OAuthTypeOK, VersionInv
<1>2. \A v \in Refreshers : v # w => refresher'[v] = refresher[v]
  BY OneMoves
<1>3. r.answer # "grant_lost" /\ link.loss # "grant_lost"
  BY DEF Claimed, NoneLost
<1>4. r.left \in Nat /\ row.blocked \in Nat /\ (Holder(w) => row.blocked > r.left)
  BY NumbersTyped, MemoryTyped DEF Claimed, BlockInv
<1>5. ASSUME NEW x, row' = row \/ row' = [row EXCEPT !.blocked = x]
      PROVE  UNCHANGED <<row.version, row.token>>
  BY <1>1, <1>5 DEF TokenRecord
<1>6. ASSUME Rest(w), UNCHANGED <<row.version, row.token, service.live>>,
             Holder(w) => ~InHand(w), ~Holder(w) => row'.blocked = row.blocked,
             link'.loss # "grant_lost"
      PROVE  Claimed'
  <2>1. ~Uses(w)' /\ q.answer # "grant_lost"
    BY <1>6, RestNumbered DEF Resting
  <2> QED BY <1>2, <1>6, <2>1, LetsGo
<1>7. CASE OpenGrant(w)
  <2>1. r.phase = "idle" /\ q.phase \in {"opened", "answered"}
        /\ q.answer \in {"none", "expired"} /\ (q.phase = "answered" => q.answer = "expired")
    BY <1>1, <1>7 DEF OpenGrant, Resting
  <2>2. ~Uses(w)' /\ ~Holder(w)
    BY <2>1 DEF Uses, Holder, Timed
  <2>3. UNCHANGED <<row, service, link>>
    BY <1>7 DEF OpenGrant
  <2> QED BY <1>2, <1>3, <2>1, <2>2, <2>3, LetsGo
<1>8. CASE Claim(w)
  <2>1. UNCHANGED <<service, link>> /\ r.phase = "opened"
    BY <1>8 DEF Claim
  <2>2. ~Uses(w) /\ ~Holder(w)
    BY <2>1 DEF Uses, Holder, Timed
  <2>3. CASE ~(Holds(w) /\ row.blocked = 0)
    <3>1. Rest(w) /\ row' = row
      BY <1>8, <2>3, Zenon DEF Claim
    <3> QED BY <1>3, <1>6, <2>1, <2>2, <3>1
  <2>4. CASE Holds(w) /\ row.blocked = 0
    <3>1. /\ row' = [row EXCEPT !.blocked = BlockTicks]
          /\ refresher' = [refresher EXCEPT ![w].phase = "asking",
                                            ![w].left = RequestTicks]
      BY <1>8, <2>4, Zenon DEF Claim
    <3>2. /\ row'.blocked = 3 /\ UNCHANGED <<row.version, row.token>>
      BY <1>1, <3>1 DEF TokenRecord
    <3>3. /\ q.phase = "asking" /\ q.left = 1 /\ q.token = r.token
          /\ q.version = r.version /\ q.answer = r.answer
      BY <1>1, <3>1 DEF RefresherRecord
    <3>4. ASSUME NEW v \in Refreshers PROVE ~Holder(v)
      <4>1. refresher[v].left \in Nat
        BY MemoryTyped
      <4> QED BY <2>4, <4>1 DEF Claimed, BlockInv
    <3>5. r.token = row.token /\ r.token # 0
      BY <1>1, <2>1, <2>4 DEF Numbered
    <3>6. /\ row.token \in service.live
          /\ \A v \in Refreshers : Uses(v) => Key(v) # row.token
      BY <3>4, <3>5 DEF Claimed, FreeRowLive
    <3>7. Uses(w)' /\ Holder(w)' /\ Key(w)' = row.token
      BY <2>4, <3>2, <3>3, <3>5 DEF Uses, Holder, Timed, Holds, Key, InHand
    <3>8. ASSUME NEW v \in Refreshers, v # w
          PROVE  ~Holder(v)' /\ (Uses(v)' => Uses(v) /\ Key(v)' = Key(v))
      <4>1. refresher'[v] = refresher[v]
        BY <1>2, <3>8
      <4> QED BY <3>2, <3>4, <4>1 DEF Uses, Holder, Timed, Holds, Key, InHand
    <3>9. BlockInv' /\ OneHolder'
      BY <3>2, <3>3, <3>8 DEF BlockInv, OneHolder
    <3>10. KeysLive' /\ KeysDiffer'
      BY <2>1, <3>6, <3>7, <3>8 DEF Claimed, KeysLive, KeysDiffer
    <3>11. FreeRowLive'
      BY <3>7 DEF FreeRowLive
    <3>12. NoneLost'
      BY <1>2, <1>3, <2>1, <3>3 DEF Claimed, NoneLost
    <3> QED BY <3>9, <3>10, <3>11, <3>12 DEF Claimed
  <2> QED BY <2>3, <2>4
<1>9. CASE Issue(w)
  <2> DEFINE n == service.issued + 1
             t == refresher[w].token
  <2>1. /\ r.phase = "asking" /\ t \in service.live
        /\ UNCHANGED <<row, link>>
    BY <1>9 DEF Issue
  <2>2. Uses(w) /\ Key(w) = t
    BY <2>1 DEF Uses, Key, InHand
  <2>3. \/ /\ service'.live = (service.live \ {t}) \cup {n}
           /\ Answered(w, "issued", n, n)
        \/ service'.live = service.live /\ Answered(w, "issued", n, t)
    BY <1>1, <1>9 DEF Issue, Undisturbed, ServiceRecord
  <2>4. /\ q.phase = "answered" /\ q.answer = "issued" /\ q.version = r.version
        /\ q.left = r.left
        /\ \/ q.stored = n /\ service'.live = (service.live \ {t}) \cup {n}
           \/ q.stored = t /\ service'.live = service.live
    BY <1>1, <2>3 DEF Answered, RefresherRecord
  <2>5. /\ Key(w)' = q.stored /\ (Holder(w)' <=> Holder(w))
    BY <2>1, <2>4 DEF Key, InHand, Holder, Holds, Timed
  <2>6. ASSUME NEW v \in Refreshers, v # w
        PROVE  /\ Uses(v)' <=> Uses(v)
               /\ Holder(v)' <=> Holder(v)
               /\ Key(v)' = Key(v) /\ refresher'[v] = refresher[v]
    <3>1. refresher'[v] = refresher[v] /\ row' = row
      BY <1>2, <2>1, <2>6
    <3> QED BY <3>1 DEF Uses, Holder, Holds, Timed, Key, InHand
  <2>7. ASSUME NEW v \in Refreshers PROVE Key(v) # n
    <3>1. /\ refresher[v].token \in Nat /\ refresher[v].stored \in Nat
          /\ service.issued \in Nat
      BY NumbersTyped, MemoryTyped
    <3>2. Numbered(v)
      BY DEF VersionInv
    <3> QED BY <3>1, <3>2 DEF Key, Numbered
  <2>8. row.token # n
    BY NumbersTyped DEF VersionInv
  <2> HIDE DEF n, t, r, q
  <2>9. BlockInv' /\ OneHolder'
    BY <1>4, <2>1, <2>4, <2>5, <2>6 DEF Claimed, BlockInv, OneHolder, r, q
  <2>10. ASSUME NEW v \in Refreshers, v # w, Uses(v) PROVE Key(v) # t
    BY <2>2, <2>10 DEF Claimed, KeysDiffer
  <2>11. KeysLive' /\ KeysDiffer'
    <3>1. q.stored \in service'.live
      BY <2>1, <2>4
    <3>2. ASSUME NEW v \in Refreshers, v # w, Uses(v)'
          PROVE  Key(v)' \in service'.live /\ Key(v)' # q.stored
      BY <2>4, <2>6, <2>7, <2>10, <3>2 DEF Claimed, KeysLive
    <3> QED BY <2>5, <2>6, <3>1, <3>2 DEF Claimed, KeysLive, KeysDiffer
  <2>12. FreeRowLive'
    <3> SUFFICES ASSUME \A v \in Refreshers : ~Holder(v)', row'.token # 0
                 PROVE  /\ row'.token \in service'.live
                        /\ \A v \in Refreshers : Uses(v)' => Key(v)' # row'.token
      BY DEF FreeRowLive
    <3>1. \A v \in Refreshers : ~Holder(v)
      BY <2>5, <2>6
    <3>2. /\ row.token \in service.live
          /\ \A v \in Refreshers : Uses(v) => Key(v) # row.token
      BY <2>1, <3>1 DEF Claimed, FreeRowLive
    <3> QED BY <2>1, <2>2, <2>4, <2>5, <2>6, <2>8, <3>2
  <2>13. NoneLost'
    BY <1>3, <2>1, <2>4, <2>6 DEF Claimed, NoneLost, q
  <2> QED BY <2>9, <2>11, <2>12, <2>13 DEF Claimed
<1>10. CASE Refuse(w)
  <2>1. Uses(w) /\ Key(w) \notin service.live
    BY <1>10 DEF Refuse, Uses, Key, InHand
  <2> QED BY <2>1 DEF Claimed, KeysLive
<1>11. CASE AnswerOtherwise(w)
  <2>1. UNCHANGED <<link, row, service>> /\ r.phase = "asking"
    BY <1>11 DEF AnswerOtherwise
  <2>2. PICK answer \in {"temporary", "client_refused", "address_blocked"} :
           Answered(w, answer, 0, 0)
    BY <1>11 DEF AnswerOtherwise
  <2>3. /\ q.phase = "answered" /\ q.answer = answer /\ q.token = r.token
        /\ q.version = r.version /\ q.left = r.left
    BY <1>1, <2>2 DEF Answered, RefresherRecord
  <2>4. /\ Key(w)' = Key(w) /\ Uses(w) /\ (Holder(w)' <=> Holder(w))
    BY <2>1, <2>3 DEF Key, InHand, Uses, Holder, Holds, Timed
  <2> QED BY <1>2, <1>3, <1>4, <2>1, <2>3, <2>4, GoesOn
<1>12. CASE ActOnFailure(w)
  <2>1. /\ UNCHANGED <<link, service>> /\ Rest(w)
        /\ r.phase = "answered" /\ r.answer \in {"temporary", "address_blocked"}
    BY <1>12 DEF ActOnFailure
  <2>2. \/ row' = row
        \/ Holds(w) /\ \E x : row' = [row EXCEPT !.blocked = x]
    BY <1>12 DEF ActOnFailure, BlockFor
  <2>3. UNCHANGED <<row.version, row.token>>
    BY <1>5, <2>2
  <2>4. ~InHand(w) /\ (Holds(w) => Holder(w))
    BY <2>1 DEF InHand, Holder, Timed
  <2> QED BY <1>3, <1>6, <2>1, <2>2, <2>3, <2>4
<1>13. CASE LoseGrant(w)
  <2>1. /\ Rest(w) /\ service' = service /\ r.phase = "answered"
        /\ r.answer \in {"grant_lost", "client_refused", "expired"}
    BY <1>13 DEF LoseGrant
  <2>2. ~InHand(w)
    BY <2>1 DEF InHand
  <2>3. CASE ~Holds(w)
    <3>1. UNCHANGED <<row, link>>
      BY <1>13, <2>3 DEF LoseGrant
    <3> QED BY <1>3, <1>6, <2>1, <2>2, <3>1
  <2>4. CASE Holds(w)
    <3>1. row'.version = 0 /\ row'.token = 0
      BY <1>13, <2>4 DEF LoseGrant, NoRow
    <3>2. link' = [link EXCEPT !.status = "reauthorize", !.loss = r.answer]
      BY <1>13, <2>4, Zenon DEF LoseGrant
    <3>3. link'.loss # "grant_lost"
      BY <1>1, <1>3, <3>2 DEF LinkRecord
    <3>4. \A v \in Refreshers : ~Holds(v)'
      BY <3>1 DEF Holds
    <3>5. q.phase = "idle" /\ q.answer # "grant_lost"
      BY <2>1, RestNumbered DEF Resting
    <3>6. \A v \in Refreshers : /\ refresher'[v].answer # "grant_lost"
                                /\ refresher'[v].phase = "asking"
                                      => refresher'[v] = refresher[v]
      BY <1>2, <3>5 DEF Claimed, NoneLost
    <3> QED BY <2>1, <3>1, <3>3, <3>4, <3>6, RowMoves
  <2> QED BY <2>3, <2>4
<1>14. ASSUME UNCHANGED <<link, row, service>>, q.phase = r.phase, q.answer = r.answer,
              q.version = r.version, q.token = r.token, q.stored = r.stored,
              q.left = r.left
       PROVE  Claimed'
  <2>1. Key(w)' = Key(w) /\ (Uses(w)' <=> Uses(w)) /\ (Holder(w)' <=> Holder(w))
    BY <1>14 DEF Key, InHand, Uses, Holder, Holds, Timed
  <2> QED BY <1>2, <1>3, <1>4, <1>14, <2>1, GoesOn
<1>15. CASE LoseFails(w)
  <2>1. /\ UNCHANGED <<link, row, service>> /\ r.phase = "answered"
        /\ r.answer \in {"grant_lost", "client_refused", "expired"}
    BY <1>15 DEF LoseFails
  <2>2. CASE Rest(w)
    <3>1. ~InHand(w)
      BY <2>1 DEF InHand
    <3> QED BY <1>3, <1>6, <2>1, <2>2, <3>1
  <2>3. CASE ~Rest(w)
    <3>1. /\ q.phase = r.phase /\ q.answer = r.answer /\ q.version = r.version
          /\ q.token = r.token /\ q.stored = r.stored /\ q.left = r.left
      BY <1>1, <1>15, <2>3 DEF LoseFails, RefresherRecord
    <3> QED BY <1>14, <2>1, <3>1
  <2> QED BY <2>2, <2>3
<1>16. CASE Freeze(w)
  <2>1. UNCHANGED <<link, row, service>>
    BY <1>16 DEF Freeze
  <2>2. /\ q.phase = r.phase /\ q.answer = r.answer /\ q.version = r.version
        /\ q.token = r.token /\ q.stored = r.stored /\ q.left = r.left
    BY <1>1, <1>16 DEF Freeze, RefresherRecord
  <2> QED BY <1>14, <2>1, <2>2
<1>17. CASE BlockAgain(w)
  <2>1. /\ UNCHANGED <<link, service>> /\ InHand(w) /\ BlockFor(w, BlockTicks)
        /\ refresher' = [refresher EXCEPT ![w].phase = "sealing", ![w].left = StoreTicks]
    BY <1>17, Zenon DEF BlockAgain, InHand, Undisturbed
  <2>2. /\ q.phase = "sealing" /\ q.left = 2 /\ q.stored = r.stored
        /\ q.version = r.version /\ q.answer = r.answer
    BY <1>1, <2>1 DEF RefresherRecord
  <2>3. /\ UNCHANGED <<row.version, row.token>>
        /\ Holds(w) => row'.blocked = 3
        /\ ~Holds(w) => row'.blocked = row.blocked
    BY <1>1, <2>1 DEF BlockFor, TokenRecord
  <2>4. Key(w)' = Key(w) /\ (Uses(w)' => Uses(w)) /\ (Holder(w)' <=> Holder(w))
        /\ (Holder(w) <=> Holds(w))
    BY <2>1, <2>2, <2>3 DEF Key, InHand, Uses, Holder, Holds, Timed
  <2>5. Holder(w) => row'.blocked > q.left
    BY <2>2, <2>3, <2>4
  <2> QED BY <1>2, <1>3, <2>1, <2>2, <2>3, <2>4, <2>5, GoesOn
<1>18. CASE StoreFails(w)
  <2>1. /\ UNCHANGED <<link, row, service>> /\ r.phase = "sealing"
        /\ refresher' = [refresher EXCEPT ![w].tries = r.tries + 1, ![w].left = 0,
                                          ![w].phase = "storing"]
    BY <1>18, Zenon DEF StoreFails, Undisturbed
  <2>2. /\ q.phase = "storing" /\ q.left = 0 /\ q.stored = r.stored
        /\ q.version = r.version /\ q.answer = r.answer
    BY <1>1, <2>1 DEF RefresherRecord
  <2>3. Key(w)' = Key(w) /\ (Uses(w)' => Uses(w)) /\ (Holder(w)' <=> Holder(w))
    BY <2>1, <2>2 DEF Key, InHand, Uses, Holder, Holds, Timed
  <2>4. Holder(w) => row'.blocked > q.left
    BY <1>4, <2>1, <2>2
  <2> QED BY <1>2, <1>3, <2>1, <2>2, <2>3, <2>4, GoesOn
<1>19. CASE CommitRefresh(w)
  <2>1. /\ UNCHANGED <<link, service>> /\ InHand(w) /\ Timed(w)
        /\ r.phase = "sealing"
    BY <1>19 DEF CommitRefresh, InHand, Timed
  <2>2. /\ q.phase \in {"idle", "storing"} /\ q.answer # "grant_lost"
        /\ q.version \in {0, r.version}
    <3>1. CASE Rest(w)
      BY <3>1, RestNumbered DEF Resting
    <3>2. CASE ~Rest(w)
      BY <1>1, <1>3, <1>19, <3>2 DEF CommitRefresh, RefresherRecord
    <3> QED BY <3>1, <3>2
  <2>3. CASE ~Holds(w)
    <3>1. row' = row
      BY <1>19, <2>3 DEF CommitRefresh
    <3>2. ~Uses(w)' /\ ~Holder(w)
      BY <2>2, <2>3, <3>1 DEF Uses, Holder, Holds
    <3> QED BY <1>2, <1>3, <2>1, <2>2, <3>1, <3>2, LetsGo
  <2>4. CASE Holds(w)
    <3>1. Uses(w) /\ Key(w) = r.stored
      BY <2>1, <2>4 DEF Uses, Holder, Key
    <3>2. row'.version = r.next /\ row'.token = r.stored /\ row.version = r.version
          /\ row.version # 0
      BY <1>1, <1>19, <2>4 DEF CommitRefresh, Renewed, Holds, TokenRecord
    <3>3. r.version < r.next
      BY <1>1, <2>1 DEF Numbered
    <3>4. ASSUME NEW v \in Refreshers PROVE ~Holds(v)'
      <4>1. refresher[v].version \in Nat /\ refresher[v].version <= r.version
            /\ r.version \in Nat /\ r.next \in Nat
        BY <3>2, MemoryTyped DEF VersionInv, Numbered
      <4>2. refresher'[v].version \in {0, refresher[v].version}
        BY <1>2, <2>2
      <4> QED BY <3>2, <3>3, <4>1, <4>2 DEF Holds
    <3>5. ASSUME NEW v \in Refreshers, refresher'[v].phase = "asking"
          PROVE  refresher'[v] = refresher[v] /\ refresher[v].token # row'.token
      <4>1. v # w /\ refresher'[v] = refresher[v]
        BY <1>2, <2>2, <3>5
      <4>2. Uses(v) /\ Key(v) = refresher[v].token
        BY <3>5, <4>1 DEF Uses, Key, InHand
      <4> QED BY <3>1, <3>2, <4>1, <4>2 DEF Claimed, KeysDiffer
    <3>6. \A v \in Refreshers : refresher'[v].answer # "grant_lost"
      BY <1>2, <2>2 DEF Claimed, NoneLost
    <3>7. row'.token \in service'.live
      BY <2>1, <3>1, <3>2 DEF Claimed, KeysLive
    <3> HIDE DEF r, q
    <3> QED BY <1>3, <2>1, <3>4, <3>5, <3>6, <3>7, RowMoves
  <2> QED BY <2>3, <2>4
<1>20. CASE Crash(w)
  <2>1. /\ UNCHANGED <<link, row, service>> /\ Rest(w)
        /\ r.phase \notin {"asking", "storing", "sealing"} /\ r.answer # "issued"
    BY <1>20, Zenon DEF Crash, Undisturbed
  <2>2. ~InHand(w)
    BY <2>1 DEF InHand
  <2> QED BY <1>3, <1>6, <2>1, <2>2
<1> QED
  BY <1>7, <1>8, <1>9, <1>10, <1>11, <1>12, <1>13, <1>15, <1>16, <1>17, <1>18, <1>19,
     <1>20 DEF Refreshing

LEMMA ReplacedClaimed ==
    ASSUME OAuthTypeOK, VersionInv, Claimed, Commanding \/ Authorizing
    PROVE  Claimed'
<1>1. /\ refresher' = refresher
      /\ \/ row' = row
         \/ row'.version = 0 /\ row'.token = 0
         \/ /\ row'.version = service.issued + 1
            /\ row'.token \in {0, service.issued + 1}
            /\ row'.token # 0 => service'.live = service.live \cup {row'.token}
      /\ service' = service \/ service'.issued = service.issued + 1
      /\ service.live \subseteq service'.live
  BY RowReplaced
<1>2. link'.loss # "grant_lost"
  <2>1. link \in LinkRecord /\ link.loss # "grant_lost"
    BY DEF OAuthTypeOK, Claimed, NoneLost
  <2>2. CASE Rotate
    <3>1. link' = [link EXCEPT !.setting = link.setting + 1, !.status = "reauthorize",
                               !.loss = "unauthorized"]
      BY <2>2, Zenon DEF Rotate
    <3> QED BY <2>1, <3>1 DEF LinkRecord
  <2>3. CASE Revoke
    BY <2>1, <2>3 DEF Revoke, LinkRecord
  <2>4. CASE RequestDeletion
    BY <2>1, <2>4 DEF RequestDeletion, LinkRecord
  <2>5. CASE Authorizing
    <3>1. link' = link \/ link' = [link EXCEPT !.status = "active", !.loss = "none"]
      BY <2>5, Zenon DEF Authorizing, Authorize
    <3> QED BY <2>1, <3>1 DEF LinkRecord
  <2> QED BY <2>2, <2>3, <2>4, <2>5 DEF Commanding
<1>3. ASSUME NEW v \in Refreshers
      PROVE  /\ refresher[v].version # service.issued + 1
             /\ refresher[v].token # service.issued + 1
  BY NumbersTyped, MemoryTyped DEF VersionInv, Numbered
<1>4. CASE row' # row
  <2>1. ASSUME NEW v \in Refreshers PROVE ~Holds(v)'
    BY <1>1, <1>3, <1>4 DEF Holds
  <2>2. row'.token # 0 => /\ row'.token \in service'.live
                          /\ row'.token = service.issued + 1
    BY <1>1, <1>4
  <2>3. \A v \in Refreshers : refresher'[v].answer # "grant_lost"
    BY <1>1 DEF Claimed, NoneLost
  <2> QED BY <1>1, <1>2, <1>3, <2>1, <2>2, <2>3, RowMoves
<1>5. CASE row' = row
  <2>1. ASSUME NEW v \in Refreshers
        PROVE  /\ Uses(v)' <=> Uses(v)
               /\ Holder(v)' <=> Holder(v)
               /\ Key(v)' = Key(v)
    BY <1>1, <1>5 DEF Uses, Holder, Holds, Timed, Key, InHand
  <2>2. BlockInv' /\ OneHolder' /\ KeysLive' /\ KeysDiffer'
    BY <1>1, <1>5, <2>1 DEF Claimed, BlockInv, OneHolder, KeysLive, KeysDiffer
  <2>3. FreeRowLive' /\ NoneLost'
    BY <1>1, <1>2, <1>5, <2>1 DEF Claimed, FreeRowLive, NoneLost
  <2> QED BY <2>2, <2>3 DEF Claimed
<1> QED BY <1>4, <1>5

LEMMA IdleClaimed ==
    ASSUME OAuthTypeOK, OAuthTypeOK', Claimed, Undisturbed', Idling
    PROVE  Claimed'
<1>1. UNCHANGED <<row.version, row.token>> /\ Remembered
      /\ (~Tick => UNCHANGED <<refresher, row.blocked>>)
      /\ (~Withdraw => service' = service)
  BY IdleRow
<1>2. service' = service
  <2>1. service \in ServiceRecord
    BY DEF OAuthTypeOK
  <2>2. ~Withdraw
    BY <2>1 DEF Withdraw, Undisturbed, ServiceRecord
  <2> QED BY <1>1, <2>2
<1>3. ASSUME NEW v \in Refreshers
      PROVE  /\ Uses(v)' <=> Uses(v)
             /\ Holder(v)' <=> Holder(v)
             /\ Key(v)' = Key(v) /\ refresher'[v].answer = refresher[v].answer
  BY <1>1 DEF Remembered, Uses, Holder, Holds, Timed, Key, InHand
<1>4. link'.loss # "grant_lost"
  <2>1. link \in LinkRecord /\ link.loss # "grant_lost"
    BY DEF OAuthTypeOK, Claimed, NoneLost
  <2>2. CASE Restore
    BY <2>1, <2>2 DEF Restore, LinkRecord
  <2>3. CASE TestEnds
    <3>1. link' = link \/ link' = [link EXCEPT !.status = "active", !.loss = "none"]
      BY <2>3, Zenon DEF TestEnds
    <3> QED BY <2>1, <3>1 DEF LinkRecord
  <2>4. CASE link' = link
    BY <2>1, <2>4
  <2> QED
    BY <2>2, <2>3, <2>4 DEF Idling, Tick, Age, RejectToken, Withdraw, StartConsent,
       ConsumeConsent, BeginTest, TestToken, TestDispatched, oauthVars
<1>5. BlockInv'
  <2>1. ASSUME NEW v \in Refreshers, Holder(v) PROVE row'.blocked > refresher'[v].left
    <3>1. row.blocked \in Nat /\ refresher[v].left \in Nat
          /\ row.blocked > refresher[v].left
      BY <2>1, NumbersTyped, MemoryTyped DEF Claimed, BlockInv
    <3>2. CASE Tick
      <4>1. refresher[v].left # 0
        BY <2>1, <3>2 DEF Tick, Undisturbed, Holder
      <4>2. row'.blocked = row.blocked - 1
        BY <3>2 DEF Tick, OAuthTypeOK, TokenRecord
      <4>3. refresher'[v].left = refresher[v].left - 1
        BY <3>2, <4>1 DEF Tick, OAuthTypeOK, RefresherRecord
      <4> QED BY <3>1, <4>2, <4>3
    <3>3. CASE ~Tick
      BY <1>1, <3>1, <3>3
    <3> QED BY <3>2, <3>3
  <2> QED BY <1>3, <2>1 DEF BlockInv
<1>6. OneHolder' /\ KeysLive' /\ KeysDiffer'
  BY <1>2, <1>3 DEF Claimed, OneHolder, KeysLive, KeysDiffer
<1>7. FreeRowLive' /\ NoneLost'
  BY <1>1, <1>2, <1>3, <1>4 DEF Claimed, FreeRowLive, NoneLost
<1> QED BY <1>5, <1>6, <1>7 DEF Claimed

LEMMA ClaimStep ==
    OAuthTypeOK /\ VersionInv /\ ClaimInv /\ [OAuthNext]_oauthVars
        => VersionInv' /\ ClaimInv'
<1> SUFFICES ASSUME OAuthTypeOK, VersionInv, ClaimInv, [OAuthNext]_oauthVars
             PROVE  VersionInv' /\ ClaimInv'
  OBVIOUS
<1>1. OAuthTypeOK'
  BY TypeStep
<1>2. VersionInv'
  BY <1>1, VersionStep
<1>3. ASSUME Undisturbed' PROVE Claimed'
  <2>1. Undisturbed /\ Claimed
    BY <1>3, ExcusesStay DEF ClaimInv, Claimed
  <2>2. ASSUME NEW w \in Refreshers, Refreshing(w) PROVE Claimed'
    BY <1>1, <1>3, <2>1, <2>2, RefreshClaimed
  <2>3. CASE Commanding \/ Authorizing
    BY <2>1, <2>3, ReplacedClaimed
  <2>4. CASE Idling
    BY <1>1, <1>3, <2>1, <2>4, IdleClaimed
  <2> QED BY <2>2, <2>3, <2>4, StepKinds
<1> QED BY <1>2, <1>3 DEF ClaimInv, Claimed

(* A grant counts as lost, however many processes refresh it, only after   *)
(* its owner withdrew it, unless a process died with an answer, froze past *)
(* its block, could not write or never heard of it: no refresh, consent or *)
(* command makes two processes present one refresh token.                  *)
THEOREM GrantsLostOnlyIfWithdrawn == OAuthSpec => []LostOnlyIfWithdrawn
<1>1. OAuthTypeOK /\ ClaimInv => LostOnlyIfWithdrawn
  BY DEF ClaimInv, NoneLost, Undisturbed, LostOnlyIfWithdrawn
<1> QED BY <1>1, TypeInit, TypeStep, LossInit, ClaimStep, PTL DEF OAuthSpec

=============================================================================
