--------------------------- MODULE HealthChecker ---------------------------
(***************************************************************************)
(* What the health handler may expect of a HealthChecker, whichever one    *)
(* GetHealthChecker returned: UpdateHealths answers with the checker's     *)
(* present report, and every change of the report is followed by a token   *)
(* in updateChan. The report may be read before its token is there, one    *)
(* token may stand for several changes, and a token may come without any   *)
(* change (the first scan of a monitor, a debounce timer).                 *)
(***************************************************************************)
CONSTANT Reports        \* what a checker can say of the devices

VARIABLES report,       \* what UpdateHealths answers with
          owed,         \* the report changed and its token is not there yet
          updateChan    \* number of tokens in the channel, which holds one

checkerVars == <<report, owed, updateChan>>

CheckerInit ==
    /\ report \in Reports
    /\ owed = FALSE
    /\ updateChan = 0

(* The report changes. The checker does so under its lock, or in its only  *)
(* goroutine: not while a token is owed.                                   *)
Change(r) ==
    /\ r \in Reports \ {report}
    /\ ~owed
    /\ report' = r
    /\ owed' = TRUE
    /\ UNCHANGED updateChan

(* SafeTriggerUpdate: a token, unless there is one already.                *)
SafeTriggerUpdate == updateChan' = 1

Trigger ==
    /\ owed
    /\ owed' = FALSE
    /\ SafeTriggerUpdate
    /\ UNCHANGED report

Nudge == SafeTriggerUpdate /\ UNCHANGED <<report, owed>>

(* The handler takes the token.                                            *)
Take ==
    /\ updateChan = 1
    /\ updateChan' = 0
    /\ UNCHANGED <<report, owed>>

CheckerNext == (\E r \in Reports : Change(r)) \/ Trigger \/ Nudge \/ Take

CheckerSpec == CheckerInit /\ [][CheckerNext]_checkerVars /\ WF_checkerVars(Trigger)
=============================================================================
