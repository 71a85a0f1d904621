---------------------------- MODULE SecurityMonitor ----------------------------
(***************************************************************************)
(* The event log of infra/security/monitoring.ts: a buffer of the latest   *)
(* events, a count for each source, and the anomaly detection that logs    *)
(* events of its own from inside logEvent.                                 *)
(***************************************************************************)
EXTENDS Clock, Sequences, FiniteSets

CONSTANTS Sources,
          MaxEvents,        \* length of the buffer
          CountThreshold,   \* 100: more events of a source are an anomaly
          BurstThreshold, BurstWindow,
          StackDepth,       \* nested calls of logEvent that exhaust the stack
          MaxLogged         \* bound: events counted for a source

ASSUME MonitorOK ==
    \A n \in {MaxEvents, CountThreshold, BurstThreshold, BurstWindow, StackDepth, MaxLogged} :
        n \in Nat

VARIABLES events, sourceEventCounts, patternDetection

monitorVars == <<now, events, sourceEventCounts, patternDetection>>

MonitorInit ==
    /\ events = <<>>
    /\ sourceEventCounts = [s \in Sources |-> 0]
    /\ patternDetection = [s \in Sources |-> <<>>]

LastOf(log) == SubSeq(log, Len(log) - MaxEvents + 1, Len(log))

(* The new events go in, the oldest go out. *)
Record(source, n) ==
    LET log == events \o [i \in 1..n |-> [source |-> source, at |-> now]]
    IN  /\ events' = IF Len(log) > MaxEvents THEN LastOf(log) ELSE log
        /\ sourceEventCounts' = [sourceEventCounts EXCEPT ![source] = @ + n]
        /\ sourceEventCounts'[source] <= MaxLogged

(* detectAnomalies reports an anomaly with logEvent, which detects it in   *)
(* its report again: an input with a pattern, or a source over the         *)
(* threshold, logs until the stack is exhausted.  (A pattern is one that   *)
(* detectSQLInjection or detectXSS finds in the event's input.)            *)
Anomalous(source, pattern) == pattern \/ sourceEventCounts[source] + 1 > CountThreshold

Reports(source, pattern) == IF Anomalous(source, pattern) THEN StackDepth ELSE 1

LogEvent(source, pattern) ==
    /\ Record(source, Reports(source, pattern))
    /\ UNCHANGED <<now, patternDetection>>

(* logRequest: a burst is an event. *)
LogRequest(source) ==
    LET timestamps == SelectSeq(Append(patternDetection[source], now),
                                LAMBDA t : t > now - BurstWindow)
    IN  /\ patternDetection' = [patternDetection EXCEPT ![source] = timestamps]
        /\ Len(timestamps) <= MaxLogged
        /\ IF Len(timestamps) > BurstThreshold
           THEN Record(source, Reports(source, FALSE))
           ELSE UNCHANGED <<events, sourceEventCounts>>
        /\ UNCHANGED now

(* The events that are not older, in the order they had.                   *)
Since(log, olderThan) ==
    LET kept[i \in 0..Len(log)] ==
            IF i = 0 THEN <<>>
            ELSE IF log[i].at >= olderThan THEN Append(kept[i - 1], log[i]) ELSE kept[i - 1]
    IN  kept[Len(log)]

ClearForgetsCounts(olderThan) ==        \* mutant: counts are cleared with old events
    /\ events' = Since(events, olderThan)
    /\ sourceEventCounts' = [s \in Sources |-> 0]
    /\ UNCHANGED <<now, patternDetection>>

(* clearEvents, with an age *)
ClearOld(olderThan) ==
    /\ events' = Since(events, olderThan)
    /\ UNCHANGED <<now, sourceEventCounts, patternDetection>>

(* clearEvents, of everything *)
ClearAll ==
    /\ events' = <<>>
    /\ sourceEventCounts' = [s \in Sources |-> 0]
    /\ patternDetection' = [s \in Sources |-> <<>>]
    /\ UNCHANGED now

MonitorTick == Tick /\ UNCHANGED <<events, sourceEventCounts, patternDetection>>

MonitorNext ==
    \/ \E s \in Sources : LogRequest(s) \/ \E pattern \in BOOLEAN : LogEvent(s, pattern)
    \/ \E t \in 1..MaxTime : ClearOld(t)
    \/ ClearAll
    \/ MonitorTick

-----------------------------------------------------------------------------
EventsOf(s) == {i \in DOMAIN events : events[i].source = s}

(* isSuspicious goes by the count of a source, which clearing old events   *)
(* must not forget: through clearing, an overflowing buffer and detections *)
(* that run away, no event is in the buffer uncounted.                     *)
CountsCoverEvents == \A s \in Sources : Cardinality(EventsOf(s)) <= sourceEventCounts[s]
=============================================================================
