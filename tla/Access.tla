------------------------------- MODULE Access -------------------------------
(***************************************************************************)
(* What everything else rests on: the session, the API's start and health, *)
(* the AI service's threads, the reading of a request, and the ledger of   *)
(* the scripts that measure it all.  The session shares no state with the  *)
(* others (a token is checked by its signature), health and tagging meet   *)
(* only in the processes that die, a request is read before anything is    *)
(* written, and the scripts run beside it; a behaviour follows one.        *)
(***************************************************************************)
EXTENDS Session, Services, Reception, UndoLedger

VARIABLE part

accessVars == <<sessionVars, servicesVars, receptionVars, ledgerVars, part>>

AccessInit ==
  /\ SessionInit /\ ServicesInit /\ LedgerInit
  /\ part \in {"session", "start", "tagging", "request", "harness"}
  /\ part \in {"session", "request", "harness"} => mongo
  /\ IF part = "request" THEN ReceptionInit
     ELSE asked = Waiting /\ reply = Waiting /\ listed = {} /\ walked = NotWalked

InSession(A) == part = "session" /\ A /\ UNCHANGED <<servicesVars, receptionVars, ledgerVars, part>>
InStart(A) == part = "start" /\ A /\ UNCHANGED <<sessionVars, receptionVars, ledgerVars, part>>
InTagging(A) == part = "tagging" /\ A /\ UNCHANGED <<sessionVars, receptionVars, ledgerVars, part>>
InRequest(A) == part = "request" /\ A /\ UNCHANGED <<sessionVars, servicesVars, ledgerVars, part>>
InHarness(A) == part = "harness" /\ A /\ UNCHANGED <<sessionVars, servicesVars, receptionVars, part>>

AccessNext ==
  \/ InSession(SessionNext) \/ InStart(StartNext) \/ InTagging(TaggingNext)
  \/ InRequest(ReceptionNext) \/ InHarness(LedgerNext)

\* Types of all parts.
AccessTypeOK == SessionTypeOK /\ ServicesTypeOK

\* What was begun goes on: a request is served or fails, an await ends, React
\* commits, a timer fires, and a thread that can run runs.
AccessFairness ==
  /\ WF_accessVars(InSession(\E j \in jobs : Alive(j) /\ (Serve(j) \/ Step(j))))
  /\ WF_accessVars(InSession(CommitSession))
  /\ WF_accessVars(InStart(Connect))
  /\ WF_accessVars(InStart(\E s \in Reported : RunCheck(s)))
  /\ WF_accessVars(InStart(AnswerHealth)) /\ WF_accessVars(InStart(DeliverHealth))
  /\ \A t \in Threads : WF_accessVars(InTagging(ThreadStep(t)))

AccessSpec == AccessInit /\ [][AccessNext]_accessVars /\ AccessFairness

----------------------------------------------------------------------------
\* AuthContext.tsx:24-56, _layout.tsx:27-33: the spinner of the start ends.
RestoringEnds == part = "session" /\ status = "restoring" ~> status # "restoring"

\* server.ts:11-21: a database that is there to stay is connected to, whenever
\* it came.
Connects == part = "start" /\ mongo ~> api = "connected" \/ ~mongo

\* HealthBanner.tsx:26-46: the banner does not check for ever.
BannerSettles == banner.state = "loading" ~> banner.state # "loading"

\* classifier.py:36-45: a thread is free again in the end, whether the model
\* was loaded by it, by another one, or not at all.
ThreadsComeBack == \A t \in Threads : pc[t] # "idle" ~> pc[t] = "idle"

\* No session ends but by its user or by the server's refusal.
SessionsLast == []SessionIsKept /\ TokenLeavesForAReason

\* The model is loaded once, behind a lock that is always given back.
LoadIsOnce == AccessTypeOK /\ OneLoad

\* A request is read as it is meant, and refused for what is wrong with it.
ReceptionIsTrue == part = "request" => RequestsAreRead

\* What the harness changes is on record, undone after a kill, and left alone
\* while its run is alive.
LedgerIsTrue == part = "harness" => LedgerHolds

\* What the banner says of a service, or of the server, was so.
HealthIsTrue == []ReportIsTrue /\ UnreachableIsTrue

\* Restoring, connecting, checking and tagging come to an end.
BegunEnds == RestoringEnds /\ Connects /\ BannerSettles /\ ThreadsComeBack
=============================================================================
