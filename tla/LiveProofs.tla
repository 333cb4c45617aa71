------------------------------ MODULE LiveProofs ------------------------------
(***************************************************************************)
(* Proofs about the open dashboard for every channel size and every bound. *)
(* IInv adds to the types how the report handler orders its stages         *)
(* (Handled), what a refresh under way has read (Reading), and that        *)
(* something still tells a page with a stream of a report it has not seen  *)
(* (Notified).                                                             *)
(***************************************************************************)
EXTENDS Live, TLAPS

-----------------------------------------------------------------------------
(* The invariant.                                                          *)

\* A report is published after its evaluation, and the next is stored after that.
Handled ==
  /\ published <= evaluated /\ stored <= evaluated + 1
  /\ handler # "evaluate" => evaluated = stored

\* A view is read reports first, and only one is under way: what it has of the reports and
\* alerts is not older than what the page shows.
Reading ==
  /\ shown.report <= shown.evaluated + 1
  /\ request.pc = "reports" =>
       /\ request.view.report <= evaluated + 1 /\ shown.report <= request.view.report
  /\ request.pc = "answered" =>
       /\ request.view.report <= request.view.evaluated + 1
       /\ shown.report <= request.view.report
       /\ shown.evaluated <= request.view.evaluated
       /\ shown.changes <= request.view.changes
  /\ page.left => link = "closed"

\* A refresh is to come: an event or the timer is on its way, or becoming visible asks.
Warned == channel > 0 \/ wire > 0 \/ page.timer \/ page.hidden

\* Without one, neither the view under way nor the one that is shown lacks a published
\* report or its alerts, unless another refresh is queued or the last one failed.
Notified ==
  link = "open" /\ ~Warned =>
    /\ page.queued \/ /\ request.pc = "reports" => request.view.report >= published
                      /\ request.pc = "answered" => /\ request.view.report >= published
                                                    /\ request.view.evaluated >= published
    /\ Busy \/ page.failed \/ (shown.report >= published /\ shown.evaluated >= published)

IInv == TypeOK /\ Handled /\ Reading /\ Notified

-----------------------------------------------------------------------------
(* The page.                                                               *)

LEMMA PageLemma ==
  ASSUME NEW p \in Pages, NEW b \in BOOLEAN
  PROVE  /\ LET q == [p EXCEPT !.timer = b] IN
              /\ q \in Pages /\ q.timer = b /\ q.hidden = p.hidden /\ q.queued = p.queued
              /\ q.failed = p.failed /\ q.left = p.left
         /\ LET q == [p EXCEPT !.hidden = b] IN
              /\ q \in Pages /\ q.hidden = b /\ q.timer = p.timer /\ q.queued = p.queued
              /\ q.failed = p.failed /\ q.left = p.left
         /\ LET q == [p EXCEPT !.failed = b] IN
              /\ q \in Pages /\ q.failed = b /\ q.timer = p.timer /\ q.queued = p.queued
              /\ q.hidden = p.hidden /\ q.left = p.left
  BY DEF Pages

\* What a call of refresh does.
LEMMA RefreshLemma ==
  ASSUME NEW p \in Pages, Refresh(p)
  PROVE  /\ page' \in Pages
         /\ page'.timer = p.timer /\ page'.hidden = p.hidden
         /\ page'.failed = p.failed /\ page'.left = p.left
         /\ \/ p.hidden /\ request' = request
            \/ Busy /\ page'.queued /\ request' = request
            \/ ~Busy /\ request' = Sent
<1>1. CASE p.hidden /\ page' = p /\ request' = request
  BY <1>1
<1>2. CASE Busy /\ page' = [p EXCEPT !.queued = TRUE] /\ request' = request
  BY <1>2 DEF Pages
<1>3. CASE ~Busy /\ page' = p /\ request' = Sent
  BY <1>3
<1>4. QED  BY <1>1, <1>2, <1>3 DEF Refresh

\* What the end of a refresh does: one that was asked for meanwhile is scheduled.
LEMMA EndedLemma ==
  ASSUME NEW p \in Pages
  PROVE  /\ Ended(p) \in Pages
         /\ Ended(p).hidden = p.hidden /\ Ended(p).failed = p.failed /\ Ended(p).left = p.left
         /\ Ended(p).timer <=> p.timer \/ p.queued
  BY DEF Ended, Pages

LEMMA FinallyLemma ==
  ASSUME TypeOK, NEW b \in BOOLEAN, page' = Ended([page EXCEPT !.failed = b])
  PROVE  /\ page'.failed = b /\ page'.hidden = page.hidden /\ page'.left = page.left
         /\ page'.timer <=> page.timer \/ page.queued
<1>1. PICK p : p = [page EXCEPT !.failed = b]
  OBVIOUS
<1>2. /\ p \in Pages /\ p.failed = b /\ p.timer = page.timer /\ p.queued = page.queued
      /\ p.hidden = page.hidden /\ p.left = page.left
  BY <1>1 DEF TypeOK, Pages
<1>3. page' = Ended(p)
  BY <1>1
<1>4. QED  BY <1>2, <1>3, EndedLemma

\* What an event on the stream and its end do.
LEMMA ScheduledLemma ==
  ASSUME TypeOK, page' = Scheduled(page)
  PROVE  page'.timer /\ page'.left = page.left
  BY DEF TypeOK, Pages, Scheduled

LEMMA LoadedLemma ==
  /\ Loaded \in Pages /\ ~Loaded.left /\ ~Loaded.timer
  /\ [Loaded EXCEPT !.left = TRUE] \in Pages
  /\ [Loaded EXCEPT !.left = TRUE].left
  BY DEF Loaded, Pages

-----------------------------------------------------------------------------
(* The server.                                                             *)

LEMMA ServerStep ==
  ASSUME TypeOK, Handled, [Next]_vars
  PROVE  /\ Handled'
         /\ handler' \in {"idle", "evaluate", "publish"}
         /\ stored' \in 0 .. MaxReports /\ evaluated' \in 0 .. stored'
         /\ published' \in 0 .. stored' /\ changes' \in 0 .. MaxChanges
         /\ stored <= stored' /\ evaluated <= evaluated' /\ changes <= changes'
         /\ published' = published \/ Publish
<1>1. /\ handler \in {"idle", "evaluate", "publish"}
      /\ MaxReports \in Nat /\ MaxChanges \in Nat
      /\ stored \in 0 .. MaxReports /\ evaluated \in 0 .. stored /\ published \in 0 .. stored
      /\ changes \in 0 .. MaxChanges
  BY LiveAssumption DEF TypeOK
<1>2. CASE SaveReport
  BY <1>1, <1>2 DEF SaveReport, Handled
<1>3. CASE EvaluateReport
  BY <1>1, <1>3 DEF EvaluateReport, Handled
<1>4. CASE Publish
  BY <1>1, <1>4 DEF Publish, Handled
<1>5. CASE AlertsChange
  BY <1>1, <1>5 DEF AlertsChange, Handled
<1>6. CASE Restart
  BY <1>1, <1>6 DEF Restart, Handled
<1>7. CASE UNCHANGED serverVars
  BY <1>1, <1>7 DEF serverVars, Handled
<1>8. \/ SaveReport \/ EvaluateReport \/ Publish \/ AlertsChange \/ Restart
      \/ UNCHANGED serverVars
  BY DEF Next, Server, Page, Stream, RefreshStep, vars, PublishOther, SessionEnds, ReadReports,
         ReadAlerts, Show, Leave, RefreshFails, Login, TimerFires, Interval, Hide, Visible,
         Subscribe, Refused, OnOpen, WriteEvent, OnReport, EndStream, OnError
<1>9. QED  BY <1>2, <1>3, <1>4, <1>5, <1>6, <1>7, <1>8

-----------------------------------------------------------------------------
(* The stream.                                                             *)

LEMMA PushedLemma ==
  ASSUME TypeOK
  PROVE  /\ Pushed \in 0 .. ChannelSize \cup {NoChannel}
         /\ Pushed = NoChannel <=> channel = NoChannel
         /\ channel # NoChannel => Pushed > 0
  BY LiveAssumption DEF TypeOK, Pushed, NoChannel

LEMMA StreamStep ==
  ASSUME TypeOK, Reading, [Next]_vars
  PROVE  /\ link' \in {"connecting", "accepted", "open", "ended", "closed"}
         /\ channel' \in 0 .. ChannelSize \cup {NoChannel} /\ wire' \in 0 .. WireSize
         /\ (channel' # NoChannel) <=> (link' \in {"accepted", "open"})
<1>1. /\ link \in {"connecting", "accepted", "open", "ended", "closed"}
      /\ channel \in 0 .. ChannelSize \cup {NoChannel} /\ wire \in 0 .. WireSize
      /\ (channel # NoChannel) <=> (link \in {"accepted", "open"})
      /\ ChannelSize \in Nat \ {0} /\ WireSize \in Nat \ {0} /\ NoChannel = -1
      /\ page.left => link = "closed"
  BY LiveAssumption DEF TypeOK, NoChannel, Reading
<1>2. CASE Publish
  BY <1>1, <1>2, PushedLemma DEF Publish
<1>3. CASE PublishOther
  BY <1>1, <1>3, PushedLemma DEF PublishOther
<1>4. CASE Restart \/ EndStream
  BY <1>1, <1>4 DEF Restart, EndStream
<1>5. CASE Leave \/ Login
  BY <1>1, <1>5 DEF Leave, Login
<1>6. CASE Subscribe \/ Refused \/ OnOpen \/ OnError
  BY <1>1, <1>6 DEF Subscribe, Refused, OnOpen, OnError
<1>7. CASE WriteEvent \/ OnReport
  BY <1>1, <1>7 DEF WriteEvent, OnReport
<1>8. CASE UNCHANGED streamVars
  BY <1>1, <1>8 DEF streamVars
<1>9. \/ Publish \/ PublishOther \/ Restart \/ EndStream \/ Leave \/ Login \/ Subscribe
      \/ Refused \/ OnOpen \/ OnError \/ WriteEvent \/ OnReport \/ UNCHANGED streamVars
  BY DEF Next, Server, Page, Stream, RefreshStep, vars, SaveReport, EvaluateReport,
         AlertsChange, SessionEnds, ReadReports, ReadAlerts, Show, RefreshFails, TimerFires,
         Interval, Hide, Visible, streamVars
<1>10. QED  BY <1>2, <1>3, <1>4, <1>5, <1>6, <1>7, <1>8, <1>9

-----------------------------------------------------------------------------
(* The page and its refresh.                                               *)

\* Views stay views.
LEMMA ViewsLemma ==
  ASSUME TypeOK, Handled, [Next]_vars
  PROVE  Views \subseteq Views' /\ Requests \subseteq Requests' /\ Blank \in Views'
<1>1. /\ stored \in Nat /\ evaluated \in Nat /\ changes \in Nat
      /\ stored' \in Nat /\ evaluated' \in Nat /\ changes' \in Nat
      /\ stored <= stored' /\ evaluated <= evaluated' /\ changes <= changes'
  BY ServerStep, LiveAssumption DEF TypeOK
<1>2. Views \subseteq Views' /\ Blank \in Views'
  BY <1>1 DEF Views, Blank
<1>3. QED  BY <1>2 DEF Requests

\* The views the dashboard handler reads.
LEMMA ReadLemma ==
  ASSUME TypeOK
  PROVE  /\ ReadReports => \/ request'.pc = "login" /\ request' \in Requests
                           \/ /\ request'.pc = "reports" /\ request' \in Requests
                              /\ request'.view.report = stored
         /\ ReadAlerts => /\ request'.pc = "answered" /\ request' \in Requests
                          /\ request'.view.report = request.view.report
                          /\ request'.view.evaluated = evaluated
                          /\ request'.view.changes = changes
<1>1. /\ stored \in Nat /\ evaluated \in Nat /\ changes \in Nat /\ request \in Requests
      /\ request.view \in Views
  BY LiveAssumption DEF TypeOK, Requests
<1>2. ASSUME ReadReports, session
      PROVE  /\ request'.pc = "reports" /\ request' \in Requests
             /\ request'.view.report = stored
  <2>1. PICK view : view = [Blank EXCEPT !.report = stored] /\ request' = [pc |-> "reports", view |-> view]
    BY <1>2, Zenon DEF ReadReports
  <2>2. view \in Views /\ view.report = stored
    BY <1>1, <2>1 DEF Views, Blank
  <2>3. QED  BY <2>1, <2>2 DEF Requests
<1>3. ASSUME ReadReports, ~session
      PROVE  request'.pc = "login" /\ request' \in Requests
  BY <1>1, <1>3 DEF ReadReports, Requests
<1>4. ASSUME ReadAlerts
      PROVE  /\ request'.pc = "answered" /\ request' \in Requests
             /\ request'.view.report = request.view.report
             /\ request'.view.evaluated = evaluated
             /\ request'.view.changes = changes
  <2>1. PICK old : old = request.view /\ old \in Views
    BY <1>1
  <2>2. PICK view : /\ view = [old EXCEPT !.evaluated = evaluated, !.changes = changes]
                    /\ request' = [pc |-> "answered", view |-> view]
    BY <1>4, <2>1, Zenon DEF ReadAlerts
  <2>3. /\ view \in Views /\ view.report = old.report /\ view.evaluated = evaluated
        /\ view.changes = changes
    <3>1. evaluated \in 0 .. evaluated /\ changes \in 0 .. changes /\ old \in Views
      BY <1>1, <2>1
    <3>2. view = [old EXCEPT !.evaluated = evaluated, !.changes = changes]
      BY <2>2
    <3>3. QED  BY <3>1, <3>2 DEF Views
  <2>4. QED  BY <2>1, <2>2, <2>3 DEF Requests
<1>5. QED  BY <1>2, <1>3, <1>4

LEMMA PageStep ==
  ASSUME TypeOK, Handled, [Next]_vars
  PROVE  page' \in Pages /\ request' \in Requests' /\ shown' \in Views'
<1>1. page \in Pages /\ request \in Requests /\ shown \in Views /\ request.view \in Views
  BY DEF TypeOK, Requests
<1>2. /\ Views \subseteq Views' /\ Requests \subseteq Requests' /\ Blank \in Views'
      /\ {NoRequest, Lost, Sent} \subseteq Requests'
  BY ViewsLemma DEF Requests, NoRequest, Lost, Sent
<1>3. CASE ReadReports \/ ReadAlerts
  <2>1. page' = page /\ shown' = shown
    BY <1>3 DEF ReadReports, ReadAlerts
  <2>2. QED  BY <1>1, <1>2, <1>3, <2>1, ReadLemma
<1>4. CASE Show
  BY <1>1, <1>2, <1>4, PageLemma, EndedLemma DEF Show
<1>5. CASE RefreshFails
  BY <1>1, <1>2, <1>5, PageLemma, EndedLemma DEF RefreshFails
<1>6. CASE Leave \/ Login
  BY <1>1, <1>2, <1>6, LoadedLemma DEF Leave, Login
<1>7. ASSUME NEW p \in Pages, Refresh(p), shown' = shown
      PROVE  page' \in Pages /\ request' \in Requests' /\ shown' \in Views'
  BY <1>1, <1>2, <1>7, RefreshLemma
<1>8. CASE TimerFires \/ Interval \/ Visible \/ OnOpen
  <2>1. PICK p \in Pages : Refresh(p) /\ shown' = shown
    BY <1>1, <1>8, PageLemma DEF TimerFires, Interval, Visible, OnOpen
  <2>2. QED  BY <1>7, <2>1
<1>9. CASE Hide \/ Refused \/ OnReport \/ OnError
  <2>1. [page EXCEPT !.hidden = TRUE] \in Pages /\ [page EXCEPT !.timer = TRUE] \in Pages
    BY <1>1 DEF Pages
  <2>2. page' \in Pages /\ request' = request /\ shown' = shown
    BY <1>9, <2>1 DEF Hide, Refused, OnReport, OnError, Scheduled
  <2>3. QED  BY <1>1, <1>2, <2>2
<1>10. CASE Restart
  BY <1>1, <1>2, <1>10 DEF Restart
<1>11. CASE UNCHANGED <<page, request, shown>>
  BY <1>1, <1>2, <1>11
<1>12. \/ ReadReports \/ ReadAlerts \/ Show \/ RefreshFails \/ Leave \/ Login \/ TimerFires
       \/ Interval \/ Visible \/ OnOpen \/ Hide \/ Refused \/ OnReport \/ OnError \/ Restart
       \/ UNCHANGED <<page, request, shown>>
  BY DEF Next, Server, Page, Stream, RefreshStep, vars, SaveReport, EvaluateReport, Publish,
         PublishOther, AlertsChange, SessionEnds, Subscribe, WriteEvent, EndStream
<1>13. QED  BY <1>3, <1>4, <1>5, <1>6, <1>8, <1>9, <1>10, <1>11, <1>12

LEMMA TypeStep ==
  ASSUME TypeOK, Handled, Reading, [Next]_vars
  PROVE  TypeOK'
<1>1. /\ session' \in {session, TRUE, FALSE}
      /\ failures' = failures \/ (failures < MaxFailures /\ failures' = failures + 1)
  BY DEF Next, Server, Page, Stream, RefreshStep, vars, SaveReport, EvaluateReport,
         Publish, PublishOther, AlertsChange, SessionEnds, Restart, ReadReports, ReadAlerts,
         Show, Leave, RefreshFails, Login, TimerFires, Interval, Hide, Visible, Subscribe,
         Refused, OnOpen, WriteEvent, OnReport, EndStream, OnError
<1>2. session' \in BOOLEAN /\ failures' \in 0 .. MaxFailures
  <2>1. session' \in BOOLEAN
    BY <1>1, Zenon DEF TypeOK
  <2>2. failures \in 0 .. MaxFailures /\ MaxFailures \in Nat
    BY LiveAssumption DEF TypeOK
  <2>3. QED  BY <1>1, <2>1, <2>2
<1>3. QED  BY <1>2, ServerStep, StreamStep, PageStep DEF TypeOK

\* Views are read in order, one at a time.
LEMMA ReadingStep ==
  ASSUME TypeOK, Handled, Reading, [Next]_vars
  PROVE  Reading'
<1>1. /\ stored \in Nat /\ evaluated \in Nat /\ changes \in Nat /\ stored <= evaluated + 1
      /\ evaluated' \in Nat /\ evaluated <= evaluated'
      /\ shown.report \in Nat /\ shown.report <= stored
      /\ shown.evaluated \in Nat /\ shown.evaluated <= evaluated
      /\ shown.changes \in Nat /\ shown.changes <= changes
      /\ request.view.report \in Nat /\ request.view.evaluated \in Nat
  BY ServerStep, LiveAssumption DEF TypeOK, Handled, Views, Requests
<1>2. page \in Pages
  BY DEF TypeOK
<1>3. CASE ReadReports
  BY <1>1, <1>3, ReadLemma DEF Reading, ReadReports, streamVars, serverVars
<1>4. CASE ReadAlerts
  BY <1>1, <1>4, ReadLemma DEF Reading, ReadAlerts, streamVars, serverVars
<1>5. CASE Show
  <2>1. request'.pc = "none" /\ shown' = request.view /\ link' = link
    BY <1>5 DEF Show, NoRequest, streamVars
  <2>2. page'.left = page.left
    BY <1>5, FinallyLemma DEF Show
  <2>3. QED  BY <1>1, <1>5, <2>1, <2>2 DEF Reading, Show
<1>6. CASE RefreshFails
  <2>1. request'.pc = "none" /\ shown' = shown /\ link' = link
    BY <1>6 DEF RefreshFails, NoRequest, streamVars
  <2>2. page'.left = page.left
    BY <1>6, FinallyLemma DEF RefreshFails
  <2>3. QED  BY <2>1, <2>2 DEF Reading
<1>7. CASE Leave
  BY <1>7 DEF Leave, Reading, NoRequest, Blank
<1>8. CASE Login
  <2>1. ~page'.left /\ request' = request /\ shown' = shown
    BY <1>8, LoadedLemma DEF Login
  <2>2. QED  BY <1>1, <2>1 DEF Reading
<1>9. ASSUME NEW p \in Pages, Refresh(p), shown' = shown, p.left = page.left,
             page.left => link' = "closed"
      PROVE  Reading'
  <2>1. request' = request \/ request' = Sent
    BY <1>9, RefreshLemma
  <2>2. page'.left = page.left
    BY <1>9, RefreshLemma
  <2>3. QED  BY <1>1, <1>9, <2>1, <2>2 DEF Reading, Sent
<1>10. CASE TimerFires \/ Interval \/ Visible
  <2>1. PICK p \in Pages : Refresh(p) /\ shown' = shown /\ p.left = page.left /\ link' = link
    BY <1>2, <1>10, PageLemma DEF TimerFires, Interval, Visible, streamVars
  <2>2. QED  BY <1>9, <2>1 DEF Reading
<1>11. CASE OnOpen
  BY <1>2, <1>9, <1>11 DEF OnOpen, Reading
<1>12. CASE Restart
  <2>1. request' = request \/ request' = Lost
    BY <1>12 DEF Restart
  <2>2. page' = page /\ shown' = shown /\ (link = "closed" => link' = "closed")
    BY <1>12 DEF Restart, TypeOK
  <2>3. QED  BY <1>1, <2>1, <2>2 DEF Reading, Lost
<1>13. CASE Hide \/ Refused \/ OnReport \/ OnError
  <2>1. page'.left = page.left
    <3>1. CASE Hide
      BY <1>2, <3>1 DEF Hide, Pages
    <3>2. CASE Refused \/ OnReport \/ OnError
      BY <3>2, ScheduledLemma DEF Refused, OnReport, OnError
    <3>3. QED  BY <1>13, <3>1, <3>2
  <2>2. request' = request /\ shown' = shown /\ (link = "closed" => link' = "closed")
    BY <1>13 DEF Hide, Refused, OnReport, OnError, streamVars
  <2>3. QED  BY <1>1, <2>1, <2>2 DEF Reading
<1>14. CASE UNCHANGED <<page, request, shown>> /\ (link = "closed" => link' = "closed")
  BY <1>1, <1>14 DEF Reading
<1>15. \/ ReadReports \/ ReadAlerts \/ Show \/ RefreshFails \/ Leave \/ Login \/ TimerFires
       \/ Interval \/ Visible \/ OnOpen \/ Hide \/ Refused \/ OnReport \/ OnError \/ Restart
       \/ UNCHANGED <<page, request, shown>> /\ (link = "closed" => link' = "closed")
  BY DEF Next, Server, Page, Stream, RefreshStep, vars, streamVars, SaveReport, EvaluateReport,
         Publish, PublishOther, AlertsChange, SessionEnds, Subscribe, WriteEvent, EndStream
<1>16. QED  BY <1>3, <1>4, <1>5, <1>6, <1>7, <1>8, <1>10, <1>11, <1>12, <1>13, <1>14, <1>15

-----------------------------------------------------------------------------
(* Nothing published is forgotten.                                         *)

LEMMA NotifiedStep ==
  ASSUME TypeOK, Handled, Reading, Notified, [Next]_vars
  PROVE  Notified'
<1>1. SUFFICES ASSUME link' = "open", ~Warned'
               PROVE  /\ \/ page'.queued
                         \/ /\ request'.pc = "reports" => request'.view.report >= published'
                            /\ request'.pc = "answered" =>
                                 /\ request'.view.report >= published'
                                 /\ request'.view.evaluated >= published'
                      /\ \/ Busy' \/ page'.failed
                         \/ shown'.report >= published' /\ shown'.evaluated >= published'
  BY DEF Notified
<1>2. /\ page \in Pages /\ published \in Nat /\ stored \in Nat /\ evaluated \in Nat
      /\ published <= evaluated /\ evaluated <= stored
      /\ request.view.report \in Nat
  BY LiveAssumption DEF TypeOK, Handled, Requests, Views
<1>3. ~(channel' > 0) /\ ~(wire' > 0) /\ ~page'.timer /\ ~page'.hidden
  BY <1>1 DEF Warned
<1>4. ~Publish /\ ~PublishOther
  BY <1>1, <1>3, PushedLemma DEF Publish, PublishOther, TypeOK
<1>5. published' = published
  BY <1>4, ServerStep
<1>6. ASSUME NEW p \in Pages, Refresh(p), shown' = shown
      PROVE  /\ \/ page'.queued
                \/ request'.pc \notin {"reports", "answered"}
             /\ Busy'
  BY <1>3, <1>6, RefreshLemma DEF Sent, Busy
<1>7. CASE TimerFires \/ Interval \/ Visible \/ OnOpen
  <2>1. PICK p \in Pages : Refresh(p) /\ shown' = shown
    BY <1>2, <1>7, PageLemma DEF TimerFires, Interval, Visible, OnOpen
  <2>2. QED  BY <1>6, <2>1
<1>8. CASE Hide \/ Refused \/ OnReport \/ OnError
  <2>1. CASE Hide
    BY <1>2, <1>3, <2>1 DEF Hide, Pages
  <2>2. CASE Refused \/ OnReport \/ OnError
    BY <1>3, <2>2, ScheduledLemma DEF Refused, OnReport, OnError
  <2>3. QED  BY <1>8, <2>1, <2>2
<1>9. CASE WriteEvent \/ Subscribe \/ EndStream \/ Leave \/ Login \/ Restart
  BY <1>1, <1>3, <1>9 DEF WriteEvent, Subscribe, EndStream, Leave, Login, Restart, TypeOK
<1>10. ASSUME link = "open", channel' = channel, wire' = wire, page'.hidden = page.hidden,
              ~page.timer
       PROVE  /\ \/ page.queued
                 \/ /\ request.pc = "reports" => request.view.report >= published
                    /\ request.pc = "answered" => /\ request.view.report >= published
                                                  /\ request.view.evaluated >= published
              /\ Busy \/ page.failed \/ (shown.report >= published /\ shown.evaluated >= published)
  BY <1>3, <1>10 DEF Notified, Warned
<1>11. CASE ReadReports \/ ReadAlerts
  <2>1. UNCHANGED <<link, channel, wire, page, shown>>
    BY <1>11 DEF ReadReports, ReadAlerts, streamVars
  <2>2. /\ \/ page.queued
           \/ /\ request.pc = "reports" => request.view.report >= published
              /\ request.pc = "answered" => /\ request.view.report >= published
                                            /\ request.view.evaluated >= published
        /\ Busy \/ page.failed \/ (shown.report >= published /\ shown.evaluated >= published)
    BY <1>1, <1>3, <1>10, <2>1
  <2>3. Busy'
    BY <1>11, ReadLemma DEF Busy
  <2>4. CASE ReadReports
    BY <1>2, <1>5, <2>3, <2>4, ReadLemma
  <2>5. CASE ReadAlerts
    <3>1. request.pc = "reports"
      BY <2>5 DEF ReadAlerts
    <3>2. QED  BY <1>2, <1>5, <2>1, <2>2, <2>3, <2>5, <3>1, ReadLemma
  <2>6. QED  BY <1>11, <2>4, <2>5
<1>12. CASE Show
  <2>1. UNCHANGED <<link, channel, wire>> /\ request.pc = "answered"
    BY <1>12 DEF Show, streamVars
  <2>2. page'.hidden = page.hidden /\ ~page.timer /\ ~page.queued
    BY <1>3, <1>12, FinallyLemma DEF Show
  <2>3. request.view.report >= published /\ request.view.evaluated >= published
    BY <1>1, <1>10, <2>1, <2>2
  <2>4. shown' = request.view /\ request'.pc = "none"
    BY <1>12 DEF Show, NoRequest
  <2>5. QED  BY <1>5, <2>3, <2>4
<1>13. CASE RefreshFails
  <2>1. request'.pc = "none" /\ page'.failed
    BY <1>13, FinallyLemma DEF RefreshFails, NoRequest
  <2>2. QED  BY <2>1
<1>14. CASE UNCHANGED <<link, channel, wire, page, request, shown>>
  BY <1>1, <1>3, <1>5, <1>10, <1>14 DEF Busy
<1>15. \/ ReadReports \/ ReadAlerts \/ Show \/ RefreshFails \/ Leave \/ Login \/ TimerFires
       \/ Interval \/ Visible \/ OnOpen \/ Hide \/ Refused \/ OnReport \/ OnError \/ Restart
       \/ Subscribe \/ WriteEvent \/ EndStream \/ Publish \/ PublishOther
       \/ UNCHANGED <<link, channel, wire, page, request, shown>>
  BY DEF Next, Server, Page, Stream, RefreshStep, vars, streamVars, SaveReport, EvaluateReport,
         AlertsChange, SessionEnds
<1>16. QED  BY <1>4, <1>7, <1>8, <1>9, <1>11, <1>12, <1>13, <1>14, <1>15

-----------------------------------------------------------------------------
(* The theorems.                                                           *)

\* The invariant of handler, stream and page is inductive.
THEOREM Invariance == Spec => []IInv
<1>1. Init => IInv
  <2>1. SUFFICES ASSUME Init PROVE IInv
    OBVIOUS
  <2>2. Blank \in Views /\ NoRequest \in Requests
    BY <2>1 DEF Init, Blank, Views, NoRequest, Requests
  <2>3. TypeOK
    BY <2>1, <2>2, LoadedLemma, LiveAssumption DEF Init, TypeOK, NoChannel
  <2>4. Handled /\ Notified
    BY <2>1 DEF Init, Handled, Notified
  <2>5. Reading
    BY <2>1, LoadedLemma DEF Init, Reading, NoRequest, Blank
  <2>6. QED  BY <2>3, <2>4, <2>5 DEF IInv
<1>2. IInv /\ [Next]_vars => IInv'
  BY TypeStep, ServerStep, ReadingStep, NotifiedStep DEF IInv
<1>3. QED  BY <1>1, <1>2, PTL DEF Spec

\* Counters, channel, page and views keep their types: a channel is there exactly while a
\* handler serves the stream (server.go:441, broker.go:14).
THEOREM TypeCorrect == Spec => []TypeOK
<1>1. IInv => TypeOK
  BY DEF IInv
<1>2. QED  BY Invariance, <1>1, PTL

\* For every channel size, wire and number of failures: a page with a working stream and
\* nothing to do shows all that was published, with its alerts, although a full channel
\* drops events and calls of refresh fall together (broker.go:33, app.js:30, app.js:71).
THEOREM QuietPage == Spec => []QuietPageIsCurrent
<1>1. IInv => QuietPageIsCurrent
  BY DEF IInv, Notified, Warned, QuietPageIsCurrent
<1>2. QED  BY Invariance, <1>1, PTL

\* For every number of reports, changes and failures: a view never shows a report with
\* alerts from before the report in front of it, and what a page shows never goes back
\* (server.go:334-345, app.js:30).
THEOREM Coherent == Spec => ViewIsCoherent
<1>1. IInv /\ [Next]_vars =>
        [/\ shown'.report <= shown'.evaluated + 1
         /\ page'.left \/ (/\ shown'.report >= shown.report
                          /\ shown'.evaluated >= shown.evaluated
                          /\ shown'.changes >= shown.changes)]_vars
  <2>1. SUFFICES ASSUME IInv, [Next]_vars
                 PROVE  /\ shown'.report <= shown'.evaluated + 1
                        /\ page'.left \/ (/\ shown'.report >= shown.report
                                         /\ shown'.evaluated >= shown.evaluated
                                         /\ shown'.changes >= shown.changes)
    OBVIOUS
  <2>2. shown'.report <= shown'.evaluated + 1
    BY <2>1, ReadingStep DEF IInv, Reading
  <2>3. shown.report \in Nat /\ shown.evaluated \in Nat /\ shown.changes \in Nat
    BY <2>1, LiveAssumption DEF IInv, TypeOK, Views
  <2>4. CASE Show
    BY <2>1, <2>2, <2>3, <2>4 DEF IInv, Reading, Show
  <2>5. CASE Leave
    BY <2>2, <2>5, LoadedLemma DEF Leave
  <2>6. CASE shown' = shown
    BY <2>2, <2>3, <2>6
  <2>7. Show \/ Leave \/ shown' = shown
    BY <2>1 DEF Next, Server, Page, Stream, RefreshStep, vars, SaveReport, EvaluateReport,
         Publish, PublishOther, AlertsChange, SessionEnds, Restart, ReadReports, ReadAlerts,
         RefreshFails, Login, TimerFires, Interval, Hide, Visible, Subscribe,
         Refused, OnOpen, WriteEvent, OnReport, EndStream, OnError
  <2>8. QED  BY <2>4, <2>5, <2>6, <2>7
<1>2. QED  BY Invariance, <1>1, PTL DEF Spec, ViewIsCoherent
===============================================================================
