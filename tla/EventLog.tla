------------------------------- MODULE EventLog -------------------------------
(***************************************************************************)
(* The logs page (app/v2/logs/page.tsx) over the event rings of the router *)
(* and the keeper, which are alike: refreshes that overlap ask one service *)
(* after the other for what came since the last time the page set itself.  *)
(* The services and the page have one clock here.                          *)
(***************************************************************************)
EXTENDS Clock, SequencesExt

CONSTANTS
    LogCapacity,     \* MAX_EVENTS, 100
    FirstEvents,     \* 50
    ShownCapacity,   \* 100
    Refreshes,       \* bound: fetchEvents under way at a time
    MaxRecorded      \* bound: events and restarts of both services

ASSUME EventLogOK ==
    /\ {LogCapacity, FirstEvents, ShownCapacity} \subseteq Nat \ {0}
    /\ MaxRecorded \in Nat

VARIABLES
    asked,           \* the services whose URL the page has, in the order it asks
    eventLog,        \* each service's ring, oldest first
    recorded,        \* how many events and restarts there were: the last one's id
    shownEvents,     \* the page's events
    lastEventTime,
    refresh,         \* None or a fetchEvents: what it has, and up to when, of each service
    onTheWay,        \* history: times between a service's answer and when it was shown
    unanswered       \* history: times passed over though the service had not answered

logVars ==
    <<now, asked, eventLog, recorded, shownEvents, lastEventTime, refresh, onTheWay, unanswered>>

Services == {"rfq-router", "keeper"}

LogInit ==
    /\ asked \in {<<"rfq-router", "keeper">>, <<"rfq-router">>, <<"keeper">>, <<>>}
    /\ eventLog = [s \in Services |-> <<>>] /\ recorded = 0
    /\ shownEvents = <<>> /\ lastEventTime = 0
    /\ refresh = [f \in Refreshes |-> None]
    /\ onTheWay = [s \in Services |-> {}] /\ unanswered = [s \in Services |-> {}]

-----------------------------------------------------------------------------
DateNow == now + 1      \* never 0, which lastEventTime begins with

(* slice(-n), and the shift() of one too many *)
Slice(n, s) == SubSeq(s, IF Len(s) > n THEN Len(s) - n + 1 ELSE 1, Len(s))

RecordEvent(s) ==
    /\ recorded < MaxRecorded
    /\ recorded' = recorded + 1
    /\ eventLog' = [eventLog EXCEPT ![s] =
           Slice(LogCapacity, Append(@, [id |-> recorded', source |-> s, time |-> DateNow]))]
    /\ UNCHANGED <<now, asked, shownEvents, lastEventTime, refresh, onTheWay, unanswered>>

(* External: the ring is in the service's memory. *)
RestartService(s) ==
    /\ recorded < MaxRecorded /\ eventLog[s] # <<>>
    /\ recorded' = recorded + 1
    /\ eventLog' = [eventLog EXCEPT ![s] = <<>>]
    /\ UNCHANGED <<now, asked, shownEvents, lastEventTime, refresh, onTheWay, unanswered>>

(* The interval, the first load or the button; lastEventTime is the one of *)
(* the callback's closure.                                                 *)
BeginRefresh(f) ==
    /\ refresh[f] = None
    /\ refresh' = [refresh EXCEPT ![f] =
           [since |-> lastEventTime, events |-> <<>>, upto |-> <<>>, failed |-> {}]]
    /\ UNCHANGED <<now, asked, eventLog, recorded, shownEvents, lastEventTime, onTheWay,
                   unanswered>>

(* filter: the elements of s that are in S *)
Only(S, s) ==
    LET kept[i \in 0..Len(s)] ==
            IF i = 0 THEN <<>> ELSE IF s[i] \in S THEN Append(kept[i - 1], s[i]) ELSE kept[i - 1]
    IN  kept[Len(s)]

(* GET /events *)
EventsSince(s, since) ==
    IF since > 0 THEN Only({e \in ToSet(eventLog[s]) : e.time > since}, eventLog[s])
                 ELSE Slice(FirstEvents, eventLog[s])

(* fetchFromUrl of the next service: its events, or none when it fails. *)
FetchFromUrl(f, ok) ==
    LET r == refresh[f]
        s == asked[Len(r.upto) + 1]
    IN  /\ r # None /\ Len(r.upto) < Len(asked)
        /\ refresh' = [refresh EXCEPT ![f] =
               [since  |-> r.since,
                events |-> r.events \o (IF ok THEN EventsSince(s, r.since) ELSE <<>>),
                upto   |-> Append(r.upto, IF ok THEN DateNow ELSE r.since),
                failed |-> IF ok THEN r.failed ELSE r.failed \cup {s}]]
        /\ UNCHANGED <<now, asked, eventLog, recorded, shownEvents, lastEventTime, onTheWay,
                       unanswered>>

(* A stable sort by time of s, which is in order, and what is added to it. *)
Place(s, e) == Cardinality({i \in DOMAIN s : s[i].time <= e.time})
InOrder(s, added) ==
    LET sorted[i \in 0..Len(added)] ==
            IF i = 0 THEN s
            ELSE InsertAt(sorted[i - 1], Place(sorted[i - 1], added[i]) + 1, added[i])
    IN  sorted[Len(added)]

NewEvents(prev, all) == Only({e \in ToSet(all) : \A p \in ToSet(prev) : p.id # e.id}, all)

CutFirst(prev, all) ==          \* mutant: sorted after the cut
    InOrder(<<>>, Slice(ShownCapacity, prev \o NewEvents(prev, all)))

Merged(prev, all) == Slice(ShownCapacity, InOrder(prev, NewEvents(prev, all)))

(* What the page does not ask of s for again once it takes r for complete. *)
PassedOver(r, s) ==
    {t \in (lastEventTime + 1)..DateNow : \E i \in DOMAIN asked : asked[i] = s /\ r.upto[i] <= t}

(* All have answered or failed. *)
ShowEvents(f) ==
    LET r == refresh[f]
    IN  /\ r # None /\ Len(r.upto) = Len(asked)
        /\ refresh' = [refresh EXCEPT ![f] = None]
        /\ IF r.events = <<>> THEN UNCHANGED <<shownEvents, lastEventTime, onTheWay, unanswered>>
           ELSE /\ shownEvents' = Merged(shownEvents, r.events)
                /\ lastEventTime' = DateNow
                /\ onTheWay' = [s \in Services |->
                       onTheWay[s] \cup IF s \in r.failed THEN {} ELSE PassedOver(r, s)]
                /\ unanswered' = [s \in Services |->
                       unanswered[s] \cup IF s \in r.failed THEN PassedOver(r, s) ELSE {}]
        /\ UNCHANGED <<now, asked, eventLog, recorded>>

LogTick ==
    /\ Tick
    /\ UNCHANGED <<asked, eventLog, recorded, shownEvents, lastEventTime, refresh, onTheWay,
                   unanswered>>

LogNext ==
    \/ \E s \in ToSet(asked) : RecordEvent(s) \/ RestartService(s)
    \/ \E f \in Refreshes :
         \/ BeginRefresh(f) \/ ShowEvents(f)
         \/ \E ok \in BOOLEAN : FetchFromUrl(f, ok)
    \/ LogTick

-----------------------------------------------------------------------------
(* However refreshes overlap, fail and arrive late, the page shows no      *)
(* event twice and all in order, and an event that it will not ask for     *)
(* again is shown, unless it is too old for the page, or fell between a    *)
(* service's answer and the moment the page took that answer for complete, *)
(* or is of a service that gave no answer to a refresh in which the other  *)
(* service's events made the page move on past it.                         *)
EventsShown ==
    /\ \A i, j \in DOMAIN shownEvents : i < j =>
         /\ shownEvents[i].id # shownEvents[j].id
         /\ shownEvents[i].time <= shownEvents[j].time
    /\ \A s \in ToSet(asked) : \A e \in ToSet(Slice(FirstEvents, eventLog[s])) :
         /\ e.time <= lastEventTime
         /\ Len(shownEvents) = ShownCapacity => e.time > shownEvents[1].time
         => e \in ToSet(shownEvents) \/ e.time \in onTheWay[s] \cup unanswered[s]
=============================================================================
