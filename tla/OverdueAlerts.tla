---------------------------- MODULE OverdueAlerts ----------------------------
(***************************************************************************)
(* The daily alert about overdue requests (handleDSROverdueCheck) and its  *)
(* repeat suppression (alerting.FireAndMark), over the requests of         *)
(* DataSubjects: one organisation, one day per round of the cron job.      *)
(***************************************************************************)
EXTENDS DataSubjects

CONSTANT Forgotten   \* ages from which on days are no longer told apart

ASSUME ForgottenAssumption == Forgotten \in Nat /\ Forgotten >= 3

VARIABLES
    cron,    \* today's task: "due" | "fire" | "mark" | "done"
    channel, \* the notification channels: some is enabled, and accepts what is sent
    fired,   \* notification_alert_state.last_fired_at, in days
    heard,   \* history: days since a channel last accepted the alert
    day,     \* history: "open", "owed" an alert, or "excused" by a fault or a toggle
    silent   \* history: days in a row that were owed an alert and got none

alertVars == <<cron, channel, fired, heard, day, silent>>
vars == <<dsrVars, alertVars>>

AlertTypeOK ==
    /\ TypeOK
    /\ cron \in {"due", "fire", "mark", "done"}
    /\ channel \in [enabled : BOOLEAN, accepts : BOOLEAN]
    /\ {fired, heard} \subseteq 0..Forgotten /\ silent \in Nat
    /\ day \in {"open", "owed", "excused"}

Reachable == channel.enabled /\ channel.accepts

AlertInit ==
    /\ Init
    /\ cron = "due" /\ channel = [enabled |-> TRUE, accepts |-> TRUE]
    /\ fired = Forgotten /\ heard = Forgotten /\ day = "open" /\ silent = 0

-----------------------------------------------------------------------------

\* due_date < NOW() holds from the first minute of the due day on, left = 1.
Alarming(row) == row.status \in Live \ {"completed", "rejected"} /\ row.left <= 1
Overdue == \E d \in Dsrs : Alarming(dsr[d])

\* last_fired_at > NOW() - INTERVAL '24 hours': a mark of yesterday's run is a little less
\* or a little more than a day old by now.
SuppressedTwice(age) == {s \in BOOLEAN : (age <= 1 => s) /\ (age > 2 => ~s)}
Suppressed(age) == {s \in BOOLEAN : (age = 0 => s) /\ (age > 1 => ~s)}

CronStart ==
    /\ cron = "due"
    /\ \E s \in Suppressed(fired) : cron' = IF Overdue /\ ~s THEN "fire" ELSE "done"
    /\ day' = IF Overdue THEN (IF day = "open" THEN "owed" ELSE day) ELSE "excused"
    /\ UNCHANGED <<dsrVars, channel, fired, heard, silent>>

\* Fire: the lookup fails, nobody is subscribed or nothing is accepted; or a channel accepts
\* and the answer arrives within the budget, or does not.
Unheard ==
    /\ cron' = "done" /\ day' = "excused" /\ UNCHANGED heard

FireAndForget ==
    /\ cron = "fire" /\ cron' = "mark"
    /\ \/ Reachable /\ heard' = 0 /\ UNCHANGED day
       \/ day' = "excused" /\ UNCHANGED heard
    /\ UNCHANGED <<dsrVars, channel, fired, silent>>

Accepted(confirmed) ==
    /\ Reachable /\ heard' = 0
    /\ cron' = IF confirmed THEN "mark" ELSE "done"
    /\ UNCHANGED day

Fire ==
    /\ cron = "fire"
    /\ Unheard \/ \E confirmed \in BOOLEAN : Accepted(confirmed)
    /\ UNCHANGED <<dsrVars, channel, fired, silent>>

\* MarkFired, or its failure.
Mark ==
    /\ cron = "mark" /\ cron' = "done"
    /\ fired' \in {0, fired}
    /\ UNCHANGED <<dsrVars, channel, heard, day, silent>>

\* The worker dies before the task is acknowledged; the queue hands it out again.
Crash ==
    /\ cron # "due" /\ cron' = "due"
    /\ UNCHANGED <<dsrVars, channel, fired, heard, day, silent>>

\* Nobody ran the scheduler when the task was due.
Missed ==
    /\ cron = "due" /\ cron' = "done" /\ day' = "excused"
    /\ UNCHANGED <<dsrVars, channel, fired, heard, silent>>

\* ToggleChannel; the receiving server stops answering, or answers again.
Toggle ==
    /\ \/ channel' = [channel EXCEPT !.enabled = ~@]
       \/ channel' = [channel EXCEPT !.accepts = ~@]
    /\ day' = "excused"
    /\ UNCHANGED <<dsrVars, cron, fired, heard, silent>>

Later(age) == IF age < Forgotten THEN age + 1 ELSE age

NextDay ==
    /\ cron = "done" /\ cron' = "due"
    /\ Day
    /\ fired' = Later(fired) /\ heard' = Later(heard)
    /\ silent' = IF day = "owed" /\ heard > 0 THEN silent + 1 ELSE 0
    /\ day' = IF Reachable THEN "open" ELSE "excused"
    /\ UNCHANGED channel

AlertNext ==
    \/ Requests /\ UNCHANGED alertVars
    \/ CronStart \/ Fire \/ Mark \/ Crash \/ Missed \/ Toggle \/ NextDay

AlertSpec == AlertInit /\ [][AlertNext]_vars

-----------------------------------------------------------------------------
(* Properties.                                                             *)

\* "It must only ever be written after a confirmed delivery" (MarkFired): whatever
\* crashes, toggles and outages come between, somebody was told at the time of the mark or
\* after it, so suppression never hides what nobody has heard.
MarkMeansTold == fired < Forgotten => heard <= fired

\* The suppression of repeats costs at most every other day: an organisation with an
\* overdue request and a channel that works all day does not go two such days unheard,
\* however often the worker died or a mark was lost before.
SilenceBounded == silent <= 1

-----------------------------------------------------------------------------
(* What comments in the repository promise and the code does not keep.     *)

\* "fires alerting events for DSR requests past their due date": the alert also goes out on
\* the due day, and for requests whose deadline was extended.
AlarmIsDeserved ==
    [][cron = "due" /\ cron' = "fire" =>
        \E d \in Dsrs : dsr[d].status \in {"open", "overdue"} /\ dsr[d].left = 0]_vars

=============================================================================
