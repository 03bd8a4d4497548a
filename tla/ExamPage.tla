------------------------------ MODULE ExamPage ------------------------------
(***************************************************************************)
(* The learner's browser during a proctored exam: the buttons and the      *)
(* timer of the page (exam_action_handler.js, proctored_exam_view.js), the *)
(* proctoring application, which the page talks to through a worker, and   *)
(* the calls under way between page and server.                            *)
(* One attempt at one exam.  The server's handlers are those of            *)
(* ExamAttempts; its clock is `left', the seconds that remain of a started *)
(* attempt.  A tab counts seconds of its own.                              *)
(***************************************************************************)
EXTENDS StudentView, Integers

CONSTANTS
  Exam,          \* the exam, with a worker configured
  Tabs,          \* the tabs of the learner's browser
  Length,        \* seconds allowed
  Grace,         \* seconds the timer holds at 0:00 (grace_period_secs)
  PollInterval,  \* seconds between two polls of the attempt (poll_interval)
  PingInterval,  \* seconds between two pings of the application
  MaxCalls       \* bound: calls under way when the learner does one thing more

ASSUME PageAssumption ==
  /\ Exams = {Exam} /\ Kind[Exam] = "proctored" /\ MaxAttempts = 1
  /\ {Length, Grace, PollInterval, PingInterval, MaxCalls} \subseteq Nat \ {0}
  /\ PollInterval > Grace

VARIABLES
  left,   \* seconds the server still allows
  app,    \* the proctoring application
  tabs,   \* what each tab shows
  calls   \* prompts, requests and replies under way

pageVars == <<db, pastDue, left, app, tabs, calls>>

NoTab == "no tab"   \* of a request whose page has gone

Prompts == {"start app", "ping", "submit app"}

Requests == {"start", "stop", "submit", "error", "poll", "last poll"}

(* A prompt to the application, or a request the server has not handled.   *)
(* A page has one call of a kind under way at a time.                      *)
Sent(t, what) == [tab |-> t, what |-> what, answer |-> "none", secs |-> 0]

Attempted == db.att[Exam][1]

Closed == [page |-> "closed", timer |-> FALSE, pings |-> FALSE, secs |-> 0, tick |-> 0]

PageTypeOK ==
  /\ TypeOK
  /\ left \in 0 .. Length
  /\ app \in {"idle", "recording", "ended", "lost"}
  /\ \A t \in Tabs : tabs[t].secs \in -Grace .. Length /\ tabs[t].timer \in BOOLEAN
  /\ \A c \in calls : c.tab \in Tabs \cup {NoTab} /\ c.what \in Prompts \cup Requests

-----------------------------------------------------------------------------
(* The timer (updateRemainingTime).                                        *)

Ticked(tab) ==
  [tab EXCEPT !.secs = @ - 1, !.tick = (@ + 1) % (PollInterval * PingInterval)]

(* Mutant of IsOver: the page does not wait for the grace period.          *)
IsOverAtZero(tab) == tab.secs <= 0

IsOver(tab) == tab.secs <= -Grace

(* An odd interval has no middle, and no ping.                             *)
IsPingDue(tab) == tab.pings /\ 2 * (tab.tick % PingInterval) = PingInterval

CallsOf(t, tab) ==
  {Sent(t, what) : what \in
     (IF IsPingDue(tab) THEN {"ping"} ELSE {}) \cup
     (IF tab.tick % PollInterval = 0 THEN {"poll"} ELSE {}) \cup
     (IF IsOver(tab) THEN {"last poll"} ELSE {})}

(* The timer is cleared once the time is over.                             *)
Stopped(tab) ==
  IF tab.timer /\ ~ IsOver(tab) THEN tab
  ELSE [tab EXCEPT !.timer = FALSE, !.pings = FALSE, !.secs = 0, !.tick = 0]

(* A second goes by; some tabs, being throttled or busy, miss it.          *)
Second(ticking) ==
  /\ \A t \in ticking : tabs[t].timer
  /\ ticking # {} \/ (Attempted.started /\ left > 0)
  /\ left' = IF Attempted.started /\ left > 0 THEN left - 1 ELSE left
  /\ db' = [db EXCEPT !.att[Exam][1].expired = Attempted.started /\ left' = 0]
  /\ tabs' = [t \in Tabs |-> IF t \in ticking THEN Stopped(Ticked(tabs[t])) ELSE tabs[t]]
  /\ calls' = calls \cup UNION {CallsOf(t, Ticked(tabs[t])) : t \in ticking}
  /\ UNCHANGED <<pastDue, app>>

-----------------------------------------------------------------------------
(* Pages.                                                                  *)

(* The first tick comes with the first rendering.                          *)
Rendering(tab) == IF tab.timer THEN Ticked(tab) ELSE tab

Loaded(d, page, remaining) ==
  Rendering([page  |-> page,
             timer |-> d.att[Exam][1].status \in InProgress /\ remaining > 0,
             pings |-> d.att[Exam][1].status # "ready_to_submit",
             secs  |-> remaining, tick |-> 0])

(* What becomes of the calls of a page that goes: requests still reach the *)
(* server, nobody waits for a reply, and the workers go with the page.     *)
Abandoned(t, under) ==
  {c \in under : c.tab # t} \cup
  {[c EXCEPT !.tab = NoTab] : c \in {c \in under :
     c.tab = t /\ c.what \in Requests /\ c.answer = "none"}}

(* The exam is opened in a tab, or loaded again.                           *)
ShowTab(t, tab, under) ==
  /\ tabs' = [tabs EXCEPT ![t] = Stopped(tab)]
  /\ calls' = Abandoned(t, under) \cup (IF tab.timer THEN CallsOf(t, tab) ELSE {})

Show(t, under) ==
  /\ db' = Opened(db, Exam, {})
  /\ ShowTab(t, Loaded(db', PageOf(db, Exam, {}), left), under)

Open(t) ==
  /\ HasAttempt(db, Exam) /\ Cardinality(calls) <= MaxCalls
  /\ Show(t, calls)
  /\ UNCHANGED <<pastDue, left, app>>

Close(t) ==
  /\ tabs[t].page # "closed" /\ Cardinality(calls) <= MaxCalls
  /\ tabs' = [tabs EXCEPT ![t] = Closed]
  /\ calls' = Abandoned(t, calls)
  /\ UNCHANGED <<db, pastDue, left, app>>

Send(t, what) ==
  /\ Cardinality(calls) < MaxCalls
  /\ calls' = calls \cup {Sent(t, what)}
  /\ UNCHANGED <<db, pastDue, left, app, tabs>>

(* Mutant of PressStart: the server is told first.                         *)
PressStartAtOnce(t) == tabs[t].page = "ready_to_start" /\ Send(t, "start")

(* examStartHandler.  The button is ready again at once.                   *)
PressStart(t) == tabs[t].page = "ready_to_start" /\ Send(t, "start app")

(* examEndHandler: "Yes, end my exam", and "No, I'd like to continue".     *)
PressSubmit(t) == tabs[t].page = "ready_to_submit" /\ Send(t, "submit")

PressContinue(t) == tabs[t].page = "ready_to_submit" /\ Send(t, "start")

PressTurnIn(t) == tabs[t].timer /\ Send(t, "stop")

-----------------------------------------------------------------------------
(* Calls.                                                                  *)

(* The application does what it is prompted to do, and the page goes on.   *)
AppAnswers(c) ==
  /\ c.what \in Prompts /\ app # "lost"
  /\ \/ /\ c.what = "start app" /\ app' = "recording"
        /\ calls' = (calls \ {c}) \cup {Sent(c.tab, "start")}
        /\ UNCHANGED <<db, tabs>>
     \/ /\ c.what = "ping" /\ app = "recording"
        /\ calls' = calls \ {c}
        /\ UNCHANGED <<db, app, tabs>>
     \/ /\ c.what = "submit app" /\ app' = "ended"
        /\ Show(c.tab, calls \ {c})
  /\ UNCHANGED <<pastDue, left>>

(* It fails, or a ping is not answered in time; other prompts have no      *)
(* timeout.                                                                *)
AppFails(c) ==
  /\ c.what \in Prompts
  /\ calls' = (calls \ {c}) \cup (IF c.what = "ping" THEN {Sent(c.tab, "error")} ELSE {})
  /\ UNCHANGED <<db, pastDue, left, app, tabs>>

LoseApp ==
  /\ app = "recording" /\ app' = "lost"
  /\ UNCHANGED <<db, pastDue, left, tabs, calls>>

(* Whether the server carries a request out, and else raises or says that  *)
(* an error is of no consequence; whether a poll has a good answer.        *)
CarriesOut(a, what) ==
  CASE what = "start"  -> ~ (a.started /\ a.status = "started") /\ IsLegal(a.status, "started")
    [] what = "stop"   -> IsLegal(a.status, "ready_to_submit")
    [] what = "submit" -> IsLegal(a.status, "submitted")
    [] what = "error"  -> a.status # "submitted" /\ IsLegal(a.status, "error")
    [] what = "poll"   -> a.status # "error"
    [] what = "last poll" -> a.status = "submitted"

HandlerOf(what) ==
  CASE what = "start"  -> Start(Exam, 1, FALSE)
    [] what = "stop"   -> Stop(Exam, 1)
    [] what = "submit" -> Submit(Exam, 1)
    [] what = "error"  -> Error(Exam, 1)
    [] what \in {"poll", "last poll"} -> Poll(Exam, 1)

Reply(c, a) ==
  [c EXCEPT !.secs   = IF c.what = "poll" THEN left ELSE 0,
            !.answer = IF CarriesOut(a, c.what) THEN "done" ELSE "refused"]

Serve(c) ==
  /\ c.what \in Requests /\ c.answer = "none"
  /\ HandlerOf(c.what)
  /\ left' = IF Attempted'.started /\ ~ Attempted.started THEN Length ELSE left
  /\ calls' = (calls \ {c}) \cup (IF c.tab = NoTab THEN {} ELSE {Reply(c, Read(db, Exam, 1).att[Exam][1])})
  /\ UNCHANGED <<app, tabs>>

(* The page gets a reply.                                                  *)
Receive(c) ==
  /\ c.answer # "none"
  /\ \/ /\ \/ c.what \in {"start", "stop", "error"} /\ c.answer = "done"
           \/ c.what = "poll" /\ c.answer = "refused"
        /\ Show(c.tab, calls \ {c})
     \/ /\ c.what \in {"submit", "last poll"} /\ c.answer = "done"
        /\ calls' = (calls \ {c}) \cup {Sent(c.tab, "submit app")}
        /\ UNCHANGED <<db, tabs>>
     \/ /\ c.what = "poll" /\ c.answer = "done"
        /\ tabs' = [tabs EXCEPT ![c.tab].secs = IF tabs[c.tab].timer THEN c.secs ELSE @]
        /\ calls' = calls \ {c}
        /\ UNCHANGED db
     \/ /\ c.what # "poll" /\ c.answer = "refused"
        /\ calls' = calls \ {c}
        /\ UNCHANGED <<db, tabs>>
  /\ UNCHANGED <<pastDue, left, app>>

(* A request or its reply is lost; the page does not send it again.        *)
Lose(c) ==
  /\ c.what \in Requests \ {"last poll"}
  /\ calls' = calls \ {c}
  /\ UNCHANGED <<db, pastDue, left, app, tabs>>

-----------------------------------------------------------------------------

(* What happens apart from these pages: the learner enters the exam, and   *)
(* the proctoring service calls back.                                      *)
Elsewhere ==
  /\ \/ ~ HasAttempt(db, Exam) /\ Post(Exam, TRUE, FALSE, "created", FALSE)
     \/ BackendNext(Exam)
  /\ UNCHANGED <<left, app, tabs, calls>>

PageInit ==
  /\ Init
  /\ left = 0 /\ app = "idle" /\ calls = {}
  /\ tabs = [t \in Tabs |-> Closed]

PageNext ==
  \/ Elsewhere
  \/ LoseApp
  \/ \E ticking \in SUBSET Tabs : Second(ticking)
  \/ \E t \in Tabs :
       \/ Open(t) \/ Close(t)
       \/ PressStart(t) \/ PressSubmit(t) \/ PressContinue(t) \/ PressTurnIn(t)
  \/ \E c \in calls :
       AppAnswers(c) \/ AppFails(c) \/ Serve(c) \/ Receive(c) \/ Lose(c)

PageSpec == PageInit /\ [][PageNext]_pageVars

(* Time goes by in every tab that is open, and the server gets the last    *)
(* poll of a page.                                                         *)
AllTick == Second({t \in Tabs : tabs[t].timer})

LastPollServed == \E c \in calls : c.what = "last poll" /\ Serve(c)

PageFairSpec == PageSpec /\ WF_pageVars(AllTick) /\ WF_pageVars(LastPollServed)

-----------------------------------------------------------------------------
(* Properties.                                                             *)

(* No exam without the application: while the attempt is in progress on    *)
(* the server the application has been started and has not been told to    *)
(* end, in whichever order pressed buttons, prompts, requests and replies  *)
(* of several tabs take effect and whichever of them are lost.             *)
RecordedThroughout ==
  Attempted.status \in InProgress => app \in {"recording", "lost"}

(* The last poll, which decides whether the page ends the exam in order,   *)
(* is sent when the time is over on the server: neither late or reordered  *)
(* replies nor the tick that comes with the first rendering let a timer    *)
(* get further ahead than the grace period.                                *)
LastPollInTime ==
  \A c \in calls : c.what = "last poll" => left = 0

(* An open page sees to the end of the attempt: nothing on the server does *)
(* so by itself, and the page, which stops polling when its timer stops,   *)
(* has asked once more by then.                                            *)
PageEndsAttempt ==
  \A t \in Tabs :
    (tabs[t].timer /\ Attempted.status \in InProgress)
      ~> (Attempted.status \notin InProgress \/ tabs[t].page = "closed")
=============================================================================
