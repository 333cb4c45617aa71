--------------------------------- MODULE Live ---------------------------------
(***************************************************************************)
(* What an open dashboard shows: a report handler stores, evaluates and    *)
(* publishes (server.go, broker.go), the event stream carries the hint to  *)
(* the page, and the page (app.js) asks for the whole dashboard, one       *)
(* request at a time.  Events carry no state the page uses, so only their  *)
(* number matters, and the reports of other agents only add events.        *)
(***************************************************************************)
EXTENDS Integers

CONSTANTS
  ChannelSize,  \* capacity of a subscriber's channel (8)
  WireSize,     \* bound: events written and not yet handled by the page
  MaxReports,   \* bound: reports of the agent
  MaxChanges,   \* bound: alerts changed without a report
  MaxFailures   \* bound: requests that fail, and restarts

ASSUME LiveAssumption ==
  /\ ChannelSize \in Nat \ {0} /\ WireSize \in Nat \ {0}
  /\ MaxReports \in Nat /\ MaxChanges \in Nat /\ MaxFailures \in Nat

VARIABLES
  handler,   \* the report handler: "idle", "evaluate" or "publish"
  stored,    \* number of the newest stored report
  evaluated, \* the newest report whose evaluation is over
  published, \* the newest report that was published
  changes,   \* alerts changed by the offline check or another session
  link,      \* the event stream: "connecting", "accepted", "open", "ended" or "closed"
  channel,   \* events in the subscriber's channel, or NoChannel
  wire,      \* events on their way to the page
  page,      \* app.js: [hidden, timer, queued, failed, left]
  request,   \* the refresh: [pc, view]
  shown,     \* the view the page shows
  session,   \* the operator's session is valid
  failures

serverVars == <<handler, stored, evaluated, published, changes>>
streamVars == <<link, channel, wire>>
vars == <<serverVars, streamVars, page, request, shown, session, failures>>

NoChannel == -1
Blank == [report |-> 0, evaluated |-> 0, changes |-> 0]
Views == [report : 0 .. stored, evaluated : 0 .. evaluated, changes : 0 .. changes]

NoRequest == [pc |-> "none", view |-> Blank]
Lost == [pc |-> "lost", view |-> Blank]
Sent == [pc |-> "sent", view |-> Blank]
Loaded == [hidden |-> FALSE, timer |-> FALSE, queued |-> FALSE, failed |-> FALSE, left |-> FALSE]

Busy == request.pc # "none"

Pages == [hidden : BOOLEAN, timer : BOOLEAN, queued : BOOLEAN, failed : BOOLEAN, left : BOOLEAN]
Requests == [pc : {"none", "sent", "reports", "answered", "login", "lost"}, view : Views]

TypeOK ==
  /\ handler \in {"idle", "evaluate", "publish"}
  /\ stored \in 0 .. MaxReports /\ evaluated \in 0 .. stored /\ published \in 0 .. stored
  /\ changes \in 0 .. MaxChanges
  /\ link \in {"connecting", "accepted", "open", "ended", "closed"}
  /\ channel \in 0 .. ChannelSize \cup {NoChannel} /\ wire \in 0 .. WireSize
  /\ (channel # NoChannel) <=> (link \in {"accepted", "open"})
  /\ page \in Pages /\ request \in Requests /\ shown \in Views
  /\ session \in BOOLEAN /\ failures \in 0 .. MaxFailures

\* A page that was just loaded; what the load showed is not followed.
Init ==
  /\ handler = "idle" /\ stored = 0 /\ evaluated = 0 /\ published = 0 /\ changes = 0
  /\ link = "connecting" /\ channel = NoChannel /\ wire = 0
  /\ page = Loaded /\ request = NoRequest /\ shown = Blank
  /\ session = TRUE /\ failures = 0

-----------------------------------------------------------------------------
(* Report handlers and what else changes the dashboard.                    *)

\* Mutant: the channel is taken to have room.
PushedAlways == IF channel = NoChannel THEN channel ELSE channel + 1

\* publish: a full channel drops the event.
Pushed == IF channel \in 0 .. ChannelSize - 1 THEN channel + 1 ELSE channel

SaveReport ==
  /\ handler = "idle" /\ stored < MaxReports
  /\ handler' = "evaluate" /\ stored' = stored + 1
  /\ UNCHANGED <<evaluated, published, changes, streamVars, page, request, shown, session, failures>>

\* Mutant: the evaluation is left to a goroutine of its own.
EvaluateInBackground ==
  /\ handler = "evaluate"
  /\ handler' = "publish" /\ evaluated' \in {evaluated, stored}
  /\ UNCHANGED <<stored, published, changes, streamVars, page, request, shown, session, failures>>

\* With or without an error the handler goes on to publish.
EvaluateReport ==
  /\ handler = "evaluate"
  /\ handler' = "publish" /\ evaluated' = stored
  /\ UNCHANGED <<stored, published, changes, streamVars, page, request, shown, session, failures>>

Publish ==
  /\ handler = "publish"
  /\ handler' = "idle" /\ published' = stored /\ channel' = Pushed
  /\ UNCHANGED <<stored, evaluated, changes, link, wire, page, request, shown, session, failures>>

\* A report of another agent.
PublishOther ==
  /\ channel # NoChannel /\ channel' = Pushed
  /\ UNCHANGED <<serverVars, link, wire, page, request, shown, session, failures>>

\* The offline check or another session changes alerts; nothing is published.
AlertsChange ==
  /\ changes < MaxChanges /\ changes' = changes + 1
  /\ UNCHANGED <<handler, stored, evaluated, published, streamVars, page, request, shown, session, failures>>

SessionEnds ==
  /\ session /\ session' = FALSE
  /\ UNCHANGED <<serverVars, streamVars, page, request, shown, failures>>

\* The server restarts; an evaluation that was cut off is over.
Restart ==
  /\ failures < MaxFailures /\ failures' = failures + 1
  /\ handler' = "idle" /\ evaluated' = stored
  /\ link' = IF channel = NoChannel THEN link ELSE "ended"
  /\ channel' = NoChannel /\ wire' = 0
  /\ request' = IF request.pc \in {"none", "answered"} THEN request ELSE Lost
  /\ UNCHANGED <<stored, published, changes, page, shown, session>>

-----------------------------------------------------------------------------
(* The page's refresh and its timer.                                       *)

\* A call of refresh on a page in state p.
Refresh(p) ==
  \/ p.hidden /\ page' = p /\ UNCHANGED request
  \/ ~p.hidden /\ Busy /\ page' = [p EXCEPT !.queued = TRUE] /\ UNCHANGED request
  \/ ~p.hidden /\ ~Busy /\ page' = p /\ request' = Sent

Scheduled(p) == [p EXCEPT !.timer = TRUE]

\* Mutant: the dashboard is served without a session.
ReadReportsUnchecked ==
  /\ request.pc = "sent"
  /\ request' = [pc |-> "reports", view |-> [Blank EXCEPT !.report = stored]]
  /\ UNCHANGED <<serverVars, streamVars, page, shown, session, failures>>

\* The dashboard handler reads the reports first and the alerts after them.
ReadReports ==
  /\ request.pc = "sent"
  /\ request' = IF session THEN [pc |-> "reports", view |-> [Blank EXCEPT !.report = stored]]
                ELSE [request EXCEPT !.pc = "login"]
  /\ UNCHANGED <<serverVars, streamVars, page, shown, session, failures>>

ReadAlerts ==
  /\ request.pc = "reports"
  /\ request' = [pc |-> "answered",
                 view |-> [request.view EXCEPT !.evaluated = evaluated, !.changes = changes]]
  /\ UNCHANGED <<serverVars, streamVars, page, shown, session, failures>>

\* The finally block: a refresh asked for meanwhile is scheduled.
Ended(p) == IF p.queued THEN [p EXCEPT !.queued = FALSE, !.timer = TRUE] ELSE p

Show ==
  /\ request.pc = "answered"
  /\ shown' = request.view /\ request' = NoRequest
  /\ page' = Ended([page EXCEPT !.failed = FALSE])
  /\ UNCHANGED <<serverVars, streamVars, session, failures>>

\* An error status, a network error or 35 seconds without an answer.
RefreshFails ==
  /\ Busy
  /\ \/ request.pc = "lost" /\ UNCHANGED failures
     \/ request.pc # "lost" /\ failures < MaxFailures /\ failures' = failures + 1
  /\ request' = NoRequest /\ page' = Ended([page EXCEPT !.failed = TRUE])
  /\ UNCHANGED <<serverVars, streamVars, shown, session>>

\* The answer is the login page: the stream is closed and the page left.
Leave ==
  /\ request.pc = "login"
  /\ request' = NoRequest /\ page' = [Loaded EXCEPT !.left = TRUE]
  /\ link' = "closed" /\ channel' = NoChannel /\ wire' = 0 /\ shown' = Blank
  /\ UNCHANGED <<serverVars, session, failures>>

\* The operator logs in and loads the page again.
Login ==
  /\ page.left
  /\ session' = TRUE /\ page' = Loaded /\ link' = "connecting"
  /\ UNCHANGED <<serverVars, channel, wire, request, shown, failures>>

TimerFires ==
  /\ page.timer
  /\ Refresh([page EXCEPT !.timer = FALSE])
  /\ UNCHANGED <<serverVars, streamVars, shown, session, failures>>

\* Mutant: a page with a stream needs no interval.
IntervalWithoutStream ==
  /\ ~page.left /\ link # "open" /\ Refresh(page)
  /\ UNCHANGED <<serverVars, streamVars, shown, session, failures>>

\* Every 15 seconds, by the button, and when the network is back.
Interval ==
  /\ ~page.left /\ Refresh(page)
  /\ UNCHANGED <<serverVars, streamVars, shown, session, failures>>

Hide ==
  /\ ~page.left /\ ~page.hidden /\ page' = [page EXCEPT !.hidden = TRUE]
  /\ UNCHANGED <<serverVars, streamVars, request, shown, session, failures>>

Visible ==
  /\ page.hidden /\ Refresh([page EXCEPT !.hidden = FALSE])
  /\ UNCHANGED <<serverVars, streamVars, shown, session, failures>>

-----------------------------------------------------------------------------
(* The event stream.                                                       *)

\* The handler subscribes before it answers.
Subscribe ==
  /\ link = "connecting" /\ session
  /\ link' = "accepted" /\ channel' = 0 /\ wire' = 0
  /\ UNCHANGED <<serverVars, page, request, shown, session, failures>>

\* Any answer but a stream, such as the login page, closes the source for good.
Refused ==
  /\ link = "connecting"
  /\ link' = "closed" /\ page' = Scheduled(page)
  /\ UNCHANGED <<serverVars, channel, wire, request, shown, session, failures>>

\* Mutant: the stream's opening only changes the label.
OnOpenIdle ==
  /\ link = "accepted"
  /\ link' = "open"
  /\ UNCHANGED <<serverVars, channel, wire, page, request, shown, session, failures>>

OnOpen ==
  /\ link = "accepted"
  /\ link' = "open" /\ Refresh(page)
  /\ UNCHANGED <<serverVars, channel, wire, shown, session, failures>>

WriteEvent ==
  /\ channel > 0 /\ wire < WireSize
  /\ channel' = channel - 1 /\ wire' = wire + 1
  /\ UNCHANGED <<serverVars, link, page, request, shown, session, failures>>

OnReport ==
  /\ wire > 0 /\ link \in {"open", "ended"}
  /\ wire' = wire - 1 /\ page' = Scheduled(page)
  /\ UNCHANGED <<serverVars, link, channel, request, shown, session, failures>>

\* The stream ends after five minutes to have the session checked, or breaks with what is
\* on its way.
EndStream ==
  /\ link \in {"accepted", "open"}
  /\ link' = "ended" /\ channel' = NoChannel
  /\ wire' = 0 \/ (link = "open" /\ wire' = wire)
  /\ UNCHANGED <<serverVars, page, request, shown, session, failures>>

\* The browser notices and connects again.
OnError ==
  /\ link = "ended" /\ wire = 0
  /\ link' = "connecting" /\ page' = Scheduled(page)
  /\ UNCHANGED <<serverVars, channel, wire, request, shown, session, failures>>

-----------------------------------------------------------------------------
Server == SaveReport \/ EvaluateReport \/ Publish \/ PublishOther \/ AlertsChange \/ SessionEnds \/ Restart
RefreshStep == ReadReports \/ ReadAlerts \/ Show \/ Leave
Page == RefreshStep \/ RefreshFails \/ Login \/ TimerFires \/ Interval \/ Hide \/ Visible
Stream == Subscribe \/ Refused \/ OnOpen \/ WriteEvent \/ OnReport \/ EndStream \/ OnError

Next == Server \/ Page \/ Stream

\* Requests are answered and the interval goes on; nothing is assumed of the stream.
Fairness ==
  /\ WF_vars(RefreshStep) /\ WF_vars(RefreshFails /\ request.pc = "lost")
  /\ WF_vars(TimerFires) /\ WF_vars(Interval)

Spec == Init /\ [][Next]_vars /\ Fairness

-----------------------------------------------------------------------------
\* A page with a working stream and nothing to do shows all that was published, with its
\* alerts, although the channel drops events and calls of refresh fall together
\* (broker.go:33, app.js:30, app.js:71).
QuietPageIsCurrent ==
  (link = "open" /\ channel = 0 /\ wire = 0 /\ ~page.timer /\ ~Busy /\ ~page.hidden
     /\ ~page.failed) =>
    shown.report >= published /\ shown.evaluated >= published

\* A view never shows a report with alerts from before the report in front of it, and what
\* the page shows never goes back (server.go:334-345, app.js:30).
ViewIsCoherent ==
  [][/\ shown'.report <= shown'.evaluated + 1
     /\ page'.left \/ (/\ shown'.report >= shown.report
                      /\ shown'.evaluated >= shown.evaluated
                      /\ shown'.changes >= shown.changes)]_vars

\* "Covers offline transitions, missed SSE messages and alerts changed by another session"
\* (app.js:189): a visible page comes to show every change, with or without a stream.
CatchesUp ==
  /\ \A n \in 1 .. MaxReports :
       (stored >= n) ~> (shown.report >= n \/ page.hidden \/ page.left)
  /\ \A n \in 1 .. MaxChanges :
       (changes >= n) ~> (shown.changes >= n \/ page.hidden \/ page.left)

\* A visible page whose session ended goes to the login form (app.js:16).
LeavesWithoutSession == (~session) ~> (page.left \/ page.hidden)
=============================================================================
