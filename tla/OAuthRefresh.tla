---------------------------- MODULE OAuthRefresh ----------------------------
(***************************************************************************)
(* One OAuth2 connection: its row of tokens, the processes that renew it   *)
(* (packages/core/src/connections/oauth2), the service that issues the     *)
(* tokens, a consent, a connection test and the commands that replace,     *)
(* revoke or delete it.  A token row has a version, which every write      *)
(* compares, and a time before which nobody may ask for another token.     *)
(*                                                                         *)
(* Time is counted in ticks of fifteen seconds: a token request lasts at   *)
(* most one, a seal with its commit two, a block three.  A process may be  *)
(* frozen past these limits.  Refresh tokens are numbered by the version   *)
(* of the row that first stored them; 0 is no row and no refresh token.    *)
(***************************************************************************)
EXTENDS Integers

CONSTANTS Refreshers,       \* concurrent refreshes, of any process
          MaxVersions,      \* token rows ever issued
          MaxSettings,      \* secret versions of the connection
          MaxRare           \* consents, commands, tests, and mishaps of the
                            \* processes, the database and the network

ASSUME OAuthAssumption ==
    MaxVersions \in Nat /\ MaxSettings \in Nat \ {0} /\ MaxRare \in Nat

BlockTicks == 3             \* REFRESH_BLOCK_SECONDS
RequestTicks == 1           \* TOKEN_REQUEST_TIMEOUT_MILLIS
StoreTicks == 2             \* CIPHER_TIMEOUT_MILLIS, with the commit
CommitAttempts == 3         \* COMMIT_ATTEMPTS

Versions == 1..MaxVersions
Settings == 1..MaxSettings

VARIABLES
    link,        \* the connection: status, setting, workspace
    row,         \* its token row
    refresher,   \* what each refresh holds in memory
    service,     \* the refresh tokens the service accepts
    consent,     \* the pending consent, and the exchanges of consumed ones
    test,        \* a connection test on its way
    rareEvents,  \* how many rare events there have been
    excused,     \* one of them may have cost the grant
    reopened     \* a test reported a connection active that had lost its grant

oauthVars == <<link, row, refresher, service, consent, test, rareEvents,
               excused, reopened>>

NoRow == [version |-> 0, setting |-> 0, token |-> 0, blocked |-> 0,
          expiry |-> "fresh"]

Resting == [phase |-> "idle", version |-> 0, token |-> 0, answer |-> "none",
            next |-> 0, stored |-> 0, tries |-> 0, left |-> 0, frozen |-> FALSE]

NoConsent == [pending |-> 0, exchanges |-> [s \in Settings |-> 0]]

NoTest == [phase |-> "idle", setting |-> 0, current |-> FALSE, lost |-> FALSE]

OAuthInit ==
    /\ link = [status |-> "reauthorize", setting |-> 1, workspace |-> TRUE,
               loss |-> "unauthorized"]
    /\ row = NoRow
    /\ refresher = [w \in Refreshers |-> Resting]
    /\ service = [live |-> {}, issued |-> 0, withdrawn |-> FALSE,
                  family |-> [v \in Versions |-> 0]]
    /\ consent = NoConsent
    /\ test = NoTest
    /\ rareEvents = 0
    /\ excused = FALSE
    /\ reopened = FALSE

-----------------------------------------------------------------------------
(* The parts of a transaction                                              *)

\* versionIs: the condition of every write that replaces or removes tokens
Holds(w) == row.version # 0 /\ row.version = refresher[w].version

\* The health revision moves, so a test that captured it no longer counts.
Bump == test' = [test EXCEPT !.current = FALSE]

Rest(w) == refresher' = [refresher EXCEPT ![w] = Resting]

\* The bound on what happens seldom.
Rare == rareEvents < MaxRare /\ rareEvents' = rareEvents + 1

\* blockOAuth2Refresh: whoever holds the version sets when anyone may ask
BlockFor(w, ticks) ==
    row' = IF Holds(w) THEN [row EXCEPT !.blocked = ticks] ELSE row

-----------------------------------------------------------------------------
(* A refresh                                                               *)

\* accessToken, pass: the grant is read; a token that is due is renewed, one
\* that cannot be renewed is lost once it has expired
OpenGrant(w) ==
    /\ refresher[w].phase = "idle"
    /\ link.workspace /\ link.status = "active"
    /\ row.version # 0 /\ row.setting = link.setting
    /\ row.expiry = "expired" \/ (row.expiry = "due" /\ row.token # 0)
    /\ refresher' = [refresher EXCEPT ![w] =
           [Resting EXCEPT !.version = row.version, !.token = row.token,
                           !.phase = IF row.token = 0 THEN "answered" ELSE "opened",
                           !.answer = IF row.token = 0 THEN "expired" ELSE "none"]]
    /\ UNCHANGED <<link, row, service, consent, test, rareEvents, excused, reopened>>

\* claimOAuth2Refresh: one statement takes the version it read, unblocked
Claim(w) ==
    /\ refresher[w].phase = "opened"
    /\ IF Holds(w) /\ row.blocked = 0
       THEN /\ row' = [row EXCEPT !.blocked = BlockTicks]
            /\ refresher' = [refresher EXCEPT ![w].phase = "asking",
                                              ![w].left = RequestTicks]
       ELSE Rest(w) /\ UNCHANGED row
    /\ UNCHANGED <<link, service, consent, test, rareEvents, excused, reopened>>

Answered(w, answer, next, stored) ==
    refresher' = [refresher EXCEPT ![w].phase = "answered", ![w].answer = answer,
                                   ![w].next = next, ![w].stored = stored]

\* The service issues: a refresh token in place of the one presented, or an
\* answer without one, which keeps the one held (nextTokens)
Issue(w) ==
    LET n == service.issued + 1
        t == refresher[w].token
    IN  /\ refresher[w].phase = "asking"
        /\ t \in service.live /\ n \in Versions
        /\ \/ /\ service' = [service EXCEPT !.issued = n,
                               !.live = (@ \ {t}) \cup {n},
                               !.family[n] = service.family[t]]
              /\ \/ /\ Answered(w, "issued", n, n)
                    /\ UNCHANGED <<rareEvents, excused>>
                 \* the service has rotated and nobody hears of it
                 \/ /\ Answered(w, "temporary", 0, 0)
                    /\ Rare /\ excused' = TRUE
           \/ /\ service' = [service EXCEPT !.issued = n]
              /\ Answered(w, "issued", n, t)
              /\ UNCHANGED <<rareEvents, excused>>
        /\ UNCHANGED <<link, row, consent, test, reopened>>

\* invalid_grant for a token the service no longer accepts; with reuse
\* detection it withdraws every token of that grant
Refuse(w) ==
    /\ refresher[w].phase = "asking"
    /\ refresher[w].token \notin service.live
    /\ Answered(w, "grant_lost", 0, 0)
    /\ LET f == service.family[refresher[w].token]
       IN  service' \in {service, [service EXCEPT !.live =
                                      {t \in @ : service.family[t] # f}]}
    /\ UNCHANGED <<link, row, consent, test, rareEvents, excused, reopened>>

\* an outage, a limit, an unusable answer, a refused client, a refused address
AnswerOtherwise(w) ==
    /\ refresher[w].phase = "asking"
    /\ \E answer \in {"temporary", "client_refused", "address_blocked"} :
           Answered(w, answer, 0, 0)
    /\ UNCHANGED <<link, row, service, consent, test, rareEvents, excused, reopened>>

\* actOnAnswer: a temporary failure blocks for as long as the service asks
\* (bound: no longer than a claim does), a refused address not at all; a write
\* that fails is swallowed, and the claim's block stands
ActOnFailure(w) ==
    /\ refresher[w].phase = "answered"
    /\ \/ /\ refresher[w].answer = "temporary"
          /\ \E ticks \in 0..BlockTicks : BlockFor(w, ticks)
          /\ UNCHANGED rareEvents
       \/ /\ refresher[w].answer = "address_blocked"
          /\ BlockFor(w, 0)
          /\ UNCHANGED rareEvents
       \/ /\ refresher[w].answer \in {"temporary", "address_blocked"}
          /\ Rare /\ UNCHANGED row
    /\ Rest(w)
    /\ UNCHANGED <<link, service, consent, test, excused, reopened>>

\* loseGrant: the tokens are deleted and the connection asks for consent again
LoseGrant(w) ==
    /\ refresher[w].phase = "answered"
    /\ refresher[w].answer \in {"grant_lost", "client_refused", "expired"}
    /\ IF Holds(w)
       THEN /\ row' = NoRow
            /\ link' = [link EXCEPT !.status = "reauthorize",
                                    !.loss = refresher[w].answer]
            /\ Bump
       ELSE UNCHANGED <<row, link, test>>
    /\ Rest(w)
    /\ UNCHANGED <<service, consent, rareEvents, excused, reopened>>

\* withCommitAttempts around loseGrant: the third failure is thrown
LoseFails(w) ==
    /\ refresher[w].phase = "answered"
    /\ refresher[w].answer \in {"grant_lost", "client_refused", "expired"}
    /\ Rare
    /\ IF refresher[w].tries + 1 < CommitAttempts
       THEN refresher' = [refresher EXCEPT ![w].tries = @ + 1]
       ELSE Rest(w)
    /\ UNCHANGED <<link, row, service, consent, test, excused, reopened>>

\* Mutant: the block is set again before the first attempt alone.
BlockAgainOnce(w) ==
    /\ \/ refresher[w].phase = "answered" /\ refresher[w].answer = "issued"
       \/ refresher[w].phase = "storing"
    /\ refresher' = [refresher EXCEPT ![w].phase = "sealing",
                                      ![w].left = StoreTicks]
    /\ IF refresher[w].tries = 0 THEN BlockFor(w, BlockTicks) ELSE UNCHANGED row
    /\ UNCHANGED <<link, service, consent, test, rareEvents, excused, reopened>>

\* commitIssued: blocked again before each attempt, as the service may have
\* rotated; a write that fails is swallowed
BlockAgain(w) ==
    /\ \/ refresher[w].phase = "answered" /\ refresher[w].answer = "issued"
       \/ refresher[w].phase = "storing"
    /\ refresher' = [refresher EXCEPT ![w].phase = "sealing",
                                      ![w].left = StoreTicks]
    /\ \/ BlockFor(w, BlockTicks) /\ UNCHANGED <<rareEvents, excused>>
       \/ UNCHANGED row /\ Rare /\ excused' = TRUE
    /\ UNCHANGED <<link, service, consent, test, reopened>>

\* Sealing or committing failed: after a second it is tried again, three
\* times; then the tokens are dropped and the old one stays in the row.
StoreFails(w) ==
    /\ refresher[w].phase = "sealing"
    /\ Rare
    /\ IF refresher[w].tries + 1 < CommitAttempts
       THEN /\ refresher' = [refresher EXCEPT ![w].tries = @ + 1, ![w].left = 0,
                                              ![w].phase = "storing"]
            /\ UNCHANGED excused
       ELSE /\ Rest(w) /\ excused' = TRUE
    /\ UNCHANGED <<link, row, service, consent, test, reopened>>

Renewed(w) == [row EXCEPT !.version = refresher[w].next,
                          !.token = refresher[w].stored,
                          !.blocked = 0, !.expiry = "fresh"]

\* commitRefresh; the process may not learn that its commit was made, and
\* tries again with a version that is gone
CommitRefresh(w) ==
    /\ refresher[w].phase = "sealing"
    /\ row' = IF Holds(w) THEN Renewed(w) ELSE row
    /\ \/ Rest(w) /\ UNCHANGED rareEvents
       \/ /\ Rare
          /\ IF refresher[w].tries + 1 < CommitAttempts
             THEN refresher' = [refresher EXCEPT ![w].tries = @ + 1, ![w].left = 0,
                                                 ![w].phase = "storing"]
             ELSE Rest(w)
    /\ UNCHANGED <<link, service, consent, test, excused, reopened>>

\* A process dies; what it may have been told dies with it.
Crash(w) ==
    /\ refresher[w].phase # "idle"
    /\ Rare
    /\ Rest(w)
    /\ excused' = (excused \/ refresher[w].phase \in {"asking", "storing", "sealing"}
                           \/ refresher[w].answer = "issued")
    /\ UNCHANGED <<link, row, service, consent, test, reopened>>

Timed(w) == \/ refresher[w].phase \in {"asking", "storing", "sealing"}
            \/ refresher[w].phase = "answered" /\ refresher[w].answer # "expired"

Freeze(w) ==
    /\ Timed(w) /\ ~refresher[w].frozen
    /\ Rare
    /\ refresher' = [refresher EXCEPT ![w].frozen = TRUE]
    /\ UNCHANGED <<link, row, service, consent, test, excused, reopened>>

\* Fifteen seconds pass; a refresh that would outlast its limit has to be
\* frozen for that.
Tick ==
    LET late == {w \in Refreshers : Timed(w) /\ refresher[w].left = 0}
    IN  /\ \A w \in late : refresher[w].frozen
        /\ row.blocked > 0
        /\ row' = [row EXCEPT !.blocked = @ - 1]
        /\ refresher' = [w \in Refreshers |->
               IF refresher[w].left = 0 THEN refresher[w]
               ELSE [refresher[w] EXCEPT !.left = @ - 1]]
        /\ excused' = (excused \/ late # {})
        /\ UNCHANGED <<link, service, consent, test, rareEvents, reopened>>

\* The access token comes within a minute of its end, then reaches it.
Age ==
    /\ row.version # 0
    /\ \/ row.expiry = "fresh" /\ row' = [row EXCEPT !.expiry = "due"]
       \/ row.expiry = "due" /\ row' = [row EXCEPT !.expiry = "expired"]
    /\ UNCHANGED <<link, refresher, service, consent, test, rareEvents, excused, reopened>>

\* rejectOAuth2Token: an API answered 401 to a token issued a minute ago
RejectToken ==
    /\ Rare
    /\ row.token # 0 /\ row.expiry # "expired"
    /\ row' = [row EXCEPT !.expiry = "expired"]
    /\ UNCHANGED <<link, refresher, service, consent, test, excused, reopened>>

\* The owner withdraws the grant at the service.
Withdraw ==
    /\ Rare /\ service.live # {}
    /\ service' = [service EXCEPT !.live = {}, !.withdrawn = TRUE]
    /\ UNCHANGED <<link, row, refresher, consent, test, excused, reopened>>

-----------------------------------------------------------------------------
(* Consent, commands and tests                                             *)

\* startOAuth2Authorization: it replaces the pending one
StartConsent ==
    /\ Rare /\ link.workspace /\ link.status # "revoked" /\ service.issued < MaxVersions
    /\ consent' = [consent EXCEPT !.pending = link.setting]
    /\ UNCHANGED <<link, row, refresher, service, test, excused, reopened>>

\* consumeOAuth2Authorization: the pending row is taken by one callback, which
\* ends there or goes on to exchange its code
ConsumeConsent ==
    /\ consent.pending # 0
    /\ \/ consent' = [consent EXCEPT !.pending = 0]
       \/ /\ link.status # "revoked" /\ consent.pending = link.setting
          /\ consent' = [consent EXCEPT !.pending = 0, !.exchanges[link.setting] = @ + 1]
    /\ UNCHANGED <<link, row, refresher, service, test, rareEvents, excused, reopened>>

Consented(s) == link.workspace /\ link.status # "revoked" /\ s = link.setting

\* authorizeOAuth2Connection: the tokens of an exchange for settings s replace
\* the row, or are discarded when the connection has changed since
Authorize(s) ==
    LET n == service.issued + 1
    IN  /\ consent.exchanges[s] > 0 /\ n \in Versions
        /\ consent' = [consent EXCEPT !.exchanges[s] = @ - 1]
        /\ \E renewable \in BOOLEAN :
              LET token == IF renewable THEN n ELSE 0
              IN  /\ service' = [service EXCEPT !.issued = n, !.family[n] = n,
                                    !.live = IF renewable THEN @ \cup {n} ELSE @]
                  /\ IF Consented(s)
                     THEN /\ row' = [version |-> n, setting |-> s,
                                     token |-> token, blocked |-> 0, expiry |-> "fresh"]
                          /\ link' = [link EXCEPT !.status = "active", !.loss = "none"]
                          /\ Bump
                          /\ reopened' = FALSE
                     ELSE UNCHANGED <<row, link, test, reopened>>
        /\ UNCHANGED <<refresher, rareEvents, excused>>

\* deleteOAuth2Grant, with the pending consent
DropGrant ==
    /\ Rare /\ row' = NoRow
    /\ consent' = [consent EXCEPT !.pending = 0]
    /\ Bump /\ reopened' = FALSE
    /\ UNCHANGED <<refresher, service, excused>>

\* rotateConnectionSecret: a new client, which nobody has consented to
Rotate ==
    /\ link.workspace /\ link.status # "revoked" /\ link.setting < MaxSettings
    /\ link' = [link EXCEPT !.setting = @ + 1, !.status = "reauthorize",
                            !.loss = "unauthorized"]
    /\ DropGrant

\* revokeConnection
Revoke ==
    /\ link.workspace /\ link.status # "revoked"
    /\ link' = [link EXCEPT !.status = "revoked"]
    /\ DropGrant

\* applyDeletionSideEffects: the workspace asks to be deleted
RequestDeletion ==
    /\ link.workspace
    /\ link' = [link EXCEPT !.workspace = FALSE,
                            !.status = IF @ = "active" THEN "reauthorize" ELSE @,
                            !.loss = IF link.status = "active" THEN "deletion" ELSE @]
    /\ DropGrant

\* The request is taken back and then the suspension, which it leaves and which
\* allows no more than a request to delete does, is lifted.
Restore ==
    /\ ~link.workspace
    /\ link' = [link EXCEPT !.workspace = TRUE]
    /\ UNCHANGED <<row, refresher, service, consent, test, rareEvents, excused, reopened>>

\* resolveConnectionTestSecret: the test reads the connection, and its
\* settings and health revision
BeginTest ==
    /\ Rare /\ test.phase = "idle" /\ link.workspace /\ link.status = "active"
    /\ test' = [NoTest EXCEPT !.phase = "claimed", !.setting = link.setting,
                              !.current = TRUE]
    /\ UNCHANGED <<link, row, refresher, service, consent, excused, reopened>>

\* testOAuth2Connection: it gets a token as a step does, or ends without one
TestToken ==
    /\ test.phase = "claimed"
    /\ test' = IF /\ link.workspace /\ link.status = "active"
                  /\ row.version # 0 /\ row.setting = link.setting
                  /\ row.expiry # "expired"
               THEN [test EXCEPT !.phase = "holding"] ELSE NoTest
    /\ UNCHANGED <<link, row, refresher, service, consent, rareEvents, excused, reopened>>

\* markConnectionTestDispatched: the same settings; the revision is read anew
TestDispatched ==
    /\ test.phase = "holding"
    /\ test' = IF link.workspace /\ link.status # "revoked" /\ test.setting = link.setting
               THEN [test EXCEPT !.phase = "dispatched", !.current = TRUE,
                                 !.lost = (row.version = 0)]
               ELSE NoTest
    /\ UNCHANGED <<link, row, refresher, service, consent, rareEvents, excused, reopened>>

\* isStaleTestObservation: it is not one of a revoked connection or of other
\* settings
SameSettings == link.status # "revoked" /\ test.setting = link.setting

\* Mutant: a test counts as long as the settings are those it tested.
StillSameSettings == SameSettings

\* applyCurrentConnectionTestHealth: nor has the health revision moved
StillCurrent == SameSettings /\ test.current

\* completeConnectionTest: a good answer makes the connection active; a bad
\* one never changes the status of an OAuth2 connection
TestEnds ==
    /\ test.phase = "dispatched"
    /\ test' = NoTest
    /\ \E ok \in BOOLEAN :
          IF ok /\ link.workspace /\ StillCurrent
          THEN /\ link' = [link EXCEPT !.status = "active", !.loss = "none"]
               /\ reopened' = (reopened \/ test.lost)
          ELSE UNCHANGED <<link, reopened>>
    /\ UNCHANGED <<row, refresher, service, consent, rareEvents, excused>>

-----------------------------------------------------------------------------
OAuthNext ==
    \/ \E w \in Refreshers :
          \/ OpenGrant(w) \/ Claim(w) \/ Issue(w) \/ Refuse(w)
          \/ AnswerOtherwise(w) \/ ActOnFailure(w) \/ LoseGrant(w) \/ LoseFails(w)
          \/ BlockAgain(w) \/ StoreFails(w) \/ CommitRefresh(w)
          \/ Crash(w) \/ Freeze(w)
    \/ Tick \/ Age \/ RejectToken \/ Withdraw
    \/ StartConsent \/ ConsumeConsent \/ \E s \in Settings : Authorize(s)
    \/ Rotate \/ Revoke \/ RequestDeletion \/ Restore
    \/ BeginTest \/ TestToken \/ TestDispatched \/ TestEnds

OAuthSpec == OAuthInit /\ [][OAuthNext]_oauthVars

-----------------------------------------------------------------------------
(* Properties                                                              *)

Losses == {"none", "unauthorized", "deletion", "grant_lost", "client_refused",
           "expired"}
Answers == {"none", "issued", "grant_lost", "client_refused", "expired",
            "temporary", "address_blocked"}

LinkRecord == [status : {"active", "reauthorize", "revoked"}, setting : Settings,
               workspace : BOOLEAN, loss : Losses]

TokenRecord == [version : 0..MaxVersions, setting : 0..MaxSettings,
                token : 0..MaxVersions, blocked : 0..BlockTicks,
                expiry : {"fresh", "due", "expired"}]

RefresherRecord ==
    [phase : {"idle", "opened", "asking", "answered", "storing", "sealing"},
     version : 0..MaxVersions, token : 0..MaxVersions, answer : Answers,
     next : 0..MaxVersions, stored : 0..MaxVersions,
     tries : 0..CommitAttempts, left : 0..StoreTicks, frozen : BOOLEAN]

ServiceRecord == [live : SUBSET Versions, issued : 0..MaxVersions,
                  withdrawn : BOOLEAN, family : [Versions -> 0..MaxVersions]]

ConsentRecord == [pending : 0..MaxSettings, exchanges : [Settings -> Nat]]

TestRecord == [phase : {"idle", "claimed", "holding", "dispatched"},
               setting : 0..MaxSettings, current : BOOLEAN, lost : BOOLEAN]

OAuthTypeOK ==
    /\ link \in LinkRecord
    /\ row \in TokenRecord
    /\ refresher \in [Refreshers -> RefresherRecord]
    /\ service \in ServiceRecord
    /\ consent \in ConsentRecord
    /\ test \in TestRecord
    /\ rareEvents \in 0..MaxRare
    /\ excused \in BOOLEAN /\ reopened \in BOOLEAN

\* Unless a process died, froze past its block, was refused every write or
\* the write of a block, or an answer was lost on its way, a grant counts as
\* revoked only after its owner withdrew it: no refresh, consent or command
\* makes two processes present one refresh token.
LostOnlyIfWithdrawn ==
    link.loss = "grant_lost" => service.withdrawn \/ excused

\* A connection is active exactly while it has tokens for its settings, however
\* refreshes, a consent, commands and a test interleave; the one exception is
\* a test that took the grant's end for the state it began in (reopened).
ActiveHasGrant ==
    \/ reopened
    \/ link.status = "active" <=> row.version # 0 /\ row.setting = link.setting

\* The same without the exception.
ActiveExactlyWithGrant ==
    link.status = "active" <=> row.version # 0 /\ row.setting = link.setting

=============================================================================
