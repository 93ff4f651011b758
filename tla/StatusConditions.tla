-------------------------- MODULE StatusConditions --------------------------
(***************************************************************************)
(* The list status.conditions of a LoggingService and the operations that  *)
(* util.StatusUpdater performs on it.  A condition is its reason (which    *)
(* component it is about) and its type; the message, the boolean status    *)
(* (true exactly for Success) and the transition time are left out.        *)
(***************************************************************************)
EXTENDS LoggingService, Naturals, Sequences, FiniteSets

InProgress == "In Progress"
Success    == "Successful"
Failed     == "Failed"

LoggingServiceStatus   == "ReconcileCycleStatus"
GraylogStatus          == "ReconcileGraylogStatus"
FluentdStatus          == "ReconcileFluentdStatus"
FluentbitStatus        == "ReconcileFluentbitStatus"
HAFluentStatus         == "ReconcileHAFluentStatus"
EventsReaderStatus     == "ReconcileEventsReaderStatus"
MonitoringAgentStatus  == "ReconcileMonitoringAgentLoggingPluginStatus"
ComponentPendingStatus == "ComponentPendingStatus"

Types == {InProgress, Success, Failed}

Reasons == {LoggingServiceStatus, GraylogStatus, FluentdStatus, FluentbitStatus,
            HAFluentStatus, EventsReaderStatus, MonitoringAgentStatus,
            ComponentPendingStatus}

LoggingServiceCondition == [reason : Reasons, type : Types]

Condition(reason, type) == [reason |-> reason, type |-> type]

\* The position of the first condition with this reason; 0 stands for the nil
\* the code returns when there is none.
GetCondition(conds, reason) ==
    IF \E i \in 1..Len(conds) : conds[i].reason = reason
    THEN CHOOSE i \in 1..Len(conds) :
            /\ conds[i].reason = reason
            /\ \A j \in 1..(i - 1) : conds[j].reason # reason
    ELSE 0

IsStatusFailed(conds, reason) ==
    LET i == GetCondition(conds, reason)
    IN  i # 0 /\ conds[i].type = Failed

\* Defective variant: a condition is always appended.
UpdateStatusAppends(conds, reason, type) == Append(conds, Condition(reason, type))

\* The list after UpdateStatus: replace in place, or append.  (Writing Failed
\* over the same Failed keeps the old condition, which here is the same value;
\* whether the list is then sent to the server is decided in SetStatus.)
UpdateStatus(conds, reason, type) ==
    LET i == GetCondition(conds, reason)
    IN  IF i # 0 THEN [conds EXCEPT ![i] = Condition(reason, type)]
                 ELSE Append(conds, Condition(reason, type))

\* The list after RemoveStatus: the last condition takes the place of the
\* removed one.
RemoveStatus(conds, reason) ==
    LET i == GetCondition(conds, reason)
        n == Len(conds)
    IN  IF i # 0 THEN SubSeq([conds EXCEPT ![i] = conds[n]], 1, n - 1)
                 ELSE conds

\* The conditions RemoveTemporaryStatuses steps over ("continue").
IsKept(cond, spec) ==
    \/ cond.reason = LoggingServiceStatus
    \/ /\ cond.type = Failed
       /\ \/ cond.reason = GraylogStatus /\ IsInstall(spec, "Graylog")
          \/ cond.reason = FluentdStatus /\ IsInstall(spec, "Fluentd")
          \/ cond.reason = FluentbitStatus /\ IsInstall(spec, "Fluentbit")
          \/ cond.reason = EventsReaderStatus /\ IsInstall(spec, "CloudEventsReader")
          \/ cond.reason = MonitoringAgentStatus
                /\ IsInstall(spec, "MonitoringAgentLoggingPlugin")
          \/ cond.reason = ComponentPendingStatus

\* The conditions the loop does not step over.
Temporary(conds, spec) == {i \in 1..Len(conds) : ~IsKept(conds[i], spec)}

\* The list after RemoveTemporaryStatuses.  The loop runs over the positions
\* from the last to the first and, for every condition it does not keep, cuts
\* off the LAST condition of the list.  A position is read before anything
\* below it has been cut off, so what remains is the prefix that is shorter by
\* the number of conditions not kept (RemoveTemporaryLoop replays the loop).
RemoveTemporaryStatuses(conds, spec) ==
    SubSeq(conds, 1, Len(conds) - Cardinality(Temporary(conds, spec)))

\* The type shown for the service as a whole, "none" before the first cycle.
CycleStatus(conds) ==
    LET i == GetCondition(conds, LoggingServiceStatus)
    IN  IF i = 0 THEN "none" ELSE conds[i].type

\* In a list of conditions the status of the cycle comes first, and no reason
\* occurs twice.
WellFormed(conds) ==
    /\ conds # <<>> => conds[1].reason = LoggingServiceStatus
    /\ \A i, j \in 1..Len(conds) : conds[i].reason = conds[j].reason => i = j
=============================================================================
