---------------------------- MODULE Verification ----------------------------
(***************************************************************************)
(* etherscan-verification.ts: verifyContract and the retries of            *)
(* runTaskWithRetry, one round at a time.  The explorer answers as it      *)
(* likes.  It is run by the tasks of Deployment.                           *)
(***************************************************************************)
EXTENDS Networks

VARIABLES verifying,       \* inside verifyContract
          times,           \* the rounds left
          relatedSources,  \* params.relatedSources: only the sources it needs
          paramsFile,      \* the file of the constructor arguments exists
          attempts         \* history: how often the explorer was asked

verificationVars == <<verifying, times, relatedSources, paramsFile, attempts>>

MaxTimes == 4

\* What the explorer says of a contract without code; then of one with code:
\* okErrors are "already", fatalErrors "fatal", unableVerifyError "unable".
AnswersToNothing == {"fatal", "other"}
Answers == {"verified", "already", "fatal", "unable", "other"}

VerificationTypeOK ==
    /\ verifying \in BOOLEAN
    /\ times \in 0 .. MaxTimes
    /\ relatedSources \in BOOLEAN
    /\ paramsFile \in BOOLEAN
    /\ attempts \in 0 .. MaxTimes

VerificationInit ==
    /\ verifying = FALSE
    /\ times = 0
    /\ relatedSources = TRUE
    /\ paramsFile = FALSE
    /\ attempts = 0

\* verifyContract up to its first round.
StartVerification ==
    /\ ~verifying
    /\ verifying' = TRUE
    /\ times' = MaxTimes
    /\ relatedSources' = TRUE
    /\ paramsFile' = TRUE
    /\ attempts' = 0

\* The last round uploads all sources, whatever went wrong before.
UploadsAllSources == times = 1 \/ ~relatedSources

\* Only what is neither fine nor fatal is tried again.
AskExplorer(answer) ==
    /\ verifying' = (answer \notin {"verified", "already", "fatal"})
    /\ relatedSources' = (~UploadsAllSources /\ answer # "unable")

\* Faulty: the arguments are deleted after every round.
AttemptCleaningUp(answer) ==
    /\ verifying /\ times > 0
    /\ AskExplorer(answer)
    /\ times' = IF verifying' THEN times - 1 ELSE times
    /\ attempts' = attempts + 1
    /\ paramsFile' = FALSE

\* Faulty: the round after the last is the first again.
AttemptForever(answer) ==
    /\ verifying /\ times > 0
    /\ AskExplorer(answer)
    /\ times' = IF verifying' THEN (IF times = 1 THEN MaxTimes ELSE times - 1) ELSE times
    /\ attempts' = IF attempts = MaxTimes THEN attempts ELSE attempts + 1
    /\ paramsFile' = (paramsFile /\ answer # "verified")

\* Faulty: the counter is not looked at.
AttemptPastZero(answer) ==
    /\ verifying
    /\ AskExplorer(answer)
    /\ times' = IF verifying' THEN times - 1 ELSE times
    /\ attempts' = attempts + 1
    /\ paramsFile' = (paramsFile /\ answer # "verified")

\* A round of runTaskWithRetry; the file stays until the explorer accepts it.
Attempt(answer) ==
    /\ verifying /\ times > 0
    /\ AskExplorer(answer)
    /\ times' = IF verifying' THEN times - 1 ELSE times
    /\ attempts' = attempts + 1
    /\ paramsFile' = (paramsFile /\ answer # "verified")

\* No round left: clean up and say so; the task goes on.
GiveUp ==
    /\ verifying /\ times = 0
    /\ verifying' = FALSE
    /\ paramsFile' = FALSE
    /\ UNCHANGED <<times, relatedSources, attempts>>

\* Its locals and its file are gone with the process.
EndVerification ==
    /\ verifying' = FALSE
    /\ times' = 0
    /\ relatedSources' = TRUE
    /\ paramsFile' = FALSE
    /\ attempts' = 0

(***************************************************************************)
(* While a verification goes on, its next round finds the constructor      *)
(* arguments it needs; it is given up only after all four rounds, the last *)
(* of them with all sources (runTaskWithRetry).                            *)
(***************************************************************************)
VerificationThorough ==
    verifying => paramsFile /\ (times = 0 => attempts = MaxTimes /\ ~relatedSources)

=============================================================================
