------------------------------ MODULE LiveView ------------------------------
(***************************************************************************)
(* What a browser shows of the executions: the event stream of             *)
(* system/realtime.service.ts at one end, and at the other the pages of    *)
(* public/app.js and public/operations.js with the coordinator of          *)
(* public/live.js between them.                                            *)
(*                                                                         *)
(* The server's data is the number of changes it has seen.  A snapshot is  *)
(* the newest page of executions, so its fingerprint is the change that    *)
(* last altered that page; a change of older executions alone gives the    *)
(* same snapshot again.  A request reads the data at one moment, and its   *)
(* answer arrives at another.                                              *)
(***************************************************************************)
EXTENDS Naturals, Sequences, FiniteSets, SequencesExt

CONSTANTS
  Requests,     \* requests under way at once
  Items,        \* executions that somebody inspects
  MaxChanges,   \* bound on the changes at the server
  MaxBreaks,    \* bound on the streams that break
  MaxMoves,     \* bound on what the person at the browser does
  Connected, Failed, Nobody, Nothing

VARIABLES
  version,      \* changes at the server so far
  newest,       \* the last of them that altered the newest page
  linked,       \* the stream is open
  sent,         \* the connection's snapshotFingerprints entry
  stream,       \* events written and not yet received
  seen,         \* executionsFingerprint in the browser
  view, page,   \* state.currentView; page 2 stands for any page or filter but the first
  list,         \* executionUi: the page shown, of which version, or an error
  queue,        \* executionUi.active: the versions its four requests read
  selected,     \* executionUi.selectedId
  detail,       \* the execution in executionUi.detail
  fetch,        \* requests under way
  waiting,      \* keys of the coordinator with a refresh pending
  breaks, moves

liveVars == <<version, newest, linked, sent, stream, seen, view, page, list, queue, selected, detail, fetch,
              waiting, breaks, moves>>

Idle == [kind |-> "none"]

-----------------------------------------------------------------------------
(* The server *)

Change ==
  /\ version < MaxChanges
  /\ version' = version + 1
  /\ newest' \in {newest, version + 1}
  /\ UNCHANGED <<linked, sent, stream, seen, view, page, list, queue, selected, detail, fetch, waiting, breaks, moves>>

server == <<version, newest>>
browser == <<seen, view, page, list, queue, selected, detail, fetch, waiting, moves>>

\* connect(): the browser's EventSource opens the stream, or opens it again.
Connect ==
  /\ ~linked
  /\ linked' = TRUE
  /\ stream' = <<Connected, newest>>
  /\ sent' = newest
  /\ UNCHANGED <<server, browser, breaks>>

\* pushSnapshots(), every two seconds.
Push ==
  /\ linked /\ sent # newest
  /\ stream' = Append(stream, newest)
  /\ sent' = newest
  /\ UNCHANGED <<server, linked, browser, breaks>>

\* The stream breaks, or close() ends it: what is on its way is lost.
Break ==
  /\ linked /\ breaks < MaxBreaks
  /\ linked' = FALSE /\ stream' = <<>> /\ sent' = Nothing
  /\ breaks' = breaks + 1
  /\ UNCHANGED <<server, browser>>

-----------------------------------------------------------------------------
(* Requests of the browser *)

Running(f, kind) == \E r \in Requests : f[r].kind = kind /\ f[r].coordinated
Room(f, n) == Cardinality({r \in Requests : f[r] = Idle}) >= n

\* listRequest, activeRequest, detailRequest: the answers of earlier requests
\* become obsolete.
Superseded(f, kind) == [r \in Requests |-> IF f[r].kind = kind THEN [f[r] EXCEPT !.current = FALSE] ELSE f[r]]

Asked(f, kind, coordinated, id) ==
  [Superseded(f, kind) EXCEPT ![CHOOSE r \in Requests : f[r] = Idle] =
     [kind |-> kind, coordinated |-> coordinated, id |-> id, current |-> TRUE, read |-> <<>>]]

\* The page was opened at History: its first request is under way.
LiveInit ==
  /\ version = 0 /\ newest = 0
  /\ linked = FALSE /\ sent = Nothing /\ stream = <<>> /\ seen = Nothing
  /\ view = "runs" /\ page = 1
  /\ list = [page |-> 1, shown |-> Nothing] /\ queue = {}
  /\ selected = Nobody /\ detail = Nothing
  /\ fetch = Asked([r \in Requests |-> Idle], "history", FALSE, Nobody) /\ waiting = {}
  /\ breaks = 0 /\ moves = 0

\* refreshHistory, refreshActive, refreshDetail.  The last does nothing while
\* no detail is shown.
Refreshed(f, kind, shown) ==
  IF kind # "execution-detail" THEN Asked(f, kind, TRUE, Nobody)
  ELSE IF shown = Nothing THEN f ELSE Asked(f, kind, TRUE, selected)

\* schedule(): a refresh starts, or waits for the one that runs.
OneStarted(f, kind, kinds) == IF kind \in kinds /\ ~Running(f, kind) THEN Refreshed(f, kind, detail) ELSE f

Started(f, kinds) ==
  OneStarted(OneStarted(OneStarted(f, "history", kinds), "active-executions", kinds), "execution-detail", kinds)

\* Mutant of Coalesced: an event that comes during a refresh is taken for served by it.
CoalescedNever(f, kinds) == waiting

Coalesced(f, kinds) == waiting \cup {k \in kinds : Running(f, k)}

\* onExecutions(): in History the snapshot is shown if it is the page in view;
\* otherwise what is in view is refreshed.
Snapshot(v) ==
  LET applied == view = "runs" /\ page = 1
      kinds == (IF view = "runs" /\ page # 1 THEN {"history"} ELSE {})
               \cup (IF view = "runs" /\ selected # Nobody THEN {"execution-detail"} ELSE {})
               \cup (IF view = "dashboard" THEN {"active-executions"} ELSE {})
  IN /\ Room(fetch, Cardinality(kinds))
     /\ seen' = v
     /\ list' = IF applied THEN [page |-> 1, shown |-> v] ELSE list
     /\ fetch' = Started(IF applied THEN Superseded(fetch, "history") ELSE fetch, kinds)
     /\ waiting' = Coalesced(fetch, kinds)

\* The events of the stream: connected, executions.
Receive ==
  /\ linked /\ stream # <<>>
  /\ stream' = Tail(stream)
  /\ \/ Head(stream) = Connected /\ seen' = Nothing /\ UNCHANGED <<list, fetch, waiting>>
     \/ Head(stream) = seen /\ UNCHANGED <<seen, list, fetch, waiting>>
     \/ Head(stream) \notin {Connected, seen} /\ Snapshot(Head(stream))
  /\ UNCHANGED <<server, linked, sent, view, page, queue, selected, detail, breaks, moves>>

\* The server reads for a request; loadActiveExecutions() makes four, two here.
Reads(kind) == IF kind = "active-executions" THEN 2 ELSE 1

Serve(r) ==
  /\ fetch[r] # Idle /\ Len(fetch[r].read) < Reads(fetch[r].kind)
  /\ fetch' = [fetch EXCEPT ![r].read = Append(@, version)]
  /\ UNCHANGED <<server, linked, sent, stream, seen, view, page, list, queue, selected, detail, waiting, breaks, moves>>

Relevant(kind) ==
  \/ kind = "history" /\ view = "runs"
  \/ kind = "active-executions" /\ view = "dashboard"
  \/ kind = "execution-detail" /\ view = "runs" /\ selected # Nobody

\* schedule()'s finally: the refresh that waits starts, if it is still relevant.
Settle(r) ==
  LET q == fetch[r]
      f == [fetch EXCEPT ![r] = Idle]
      again == q.coordinated /\ q.kind \in waiting
  IN /\ waiting' = IF q.coordinated THEN waiting \ {q.kind} ELSE waiting
     /\ fetch' = IF again /\ Relevant(q.kind) THEN Refreshed(f, q.kind, detail') ELSE f

\* An answer, or a failure, of a request that is still current is shown.
Answer(r) ==
  LET q == fetch[r] IN
  /\ q # Idle /\ Len(q.read) = Reads(q.kind)
  /\ \E value \in {Range(q.read), {Failed}} :
       /\ list' = IF q.kind = "history" /\ q.current
                  THEN [page |-> page, shown |-> CHOOSE v \in value : TRUE] ELSE list
       /\ queue' = IF q.kind = "active-executions" /\ q.current THEN value ELSE queue
       /\ detail' = IF q.kind = "execution-detail" /\ q.current /\ value # {Failed} THEN q.id ELSE detail
  /\ Settle(r)
  /\ UNCHANGED <<server, linked, sent, stream, seen, view, page, selected, breaks, moves>>

-----------------------------------------------------------------------------
(* The person at the browser *)

Move == moves < MaxMoves /\ moves' = moves + 1
MoveTo(v) == Move /\ view' = v /\ UNCHANGED <<server, linked, sent, stream, seen, breaks, waiting>>

\* loadExecutions(): another page is cleared while it loads.
Load(p) ==
  /\ Room(fetch, 1)
  /\ page' = p
  /\ list' = IF list.page = p THEN list ELSE [page |-> p, shown |-> Nothing]
  /\ fetch' = Asked(fetch, "history", FALSE, Nobody)

\* setView()
OpenHistory == MoveTo("runs") /\ Load(page) /\ UNCHANGED <<queue, selected, detail>>

OpenDashboard ==
  /\ MoveTo("dashboard")
  /\ Room(fetch, 1)
  /\ fetch' = IF view = "dashboard" THEN fetch ELSE Asked(fetch, "active-executions", FALSE, Nobody)
  /\ UNCHANGED <<page, list, queue, selected, detail>>

OpenOther == MoveTo("other") /\ UNCHANGED <<fetch, page, list, queue, selected, detail>>

\* The buttons of the list, and its filter.
Turn(p) == view = "runs" /\ MoveTo(view) /\ Load(p) /\ UNCHANGED <<queue, selected, detail>>

\* inspectExecution()
Inspect(x) ==
  /\ view = "runs" /\ MoveTo(view)
  /\ Room(fetch, 1)
  /\ selected' = x /\ detail' = Nothing
  /\ fetch' = Asked(fetch, "execution-detail", FALSE, x)
  /\ UNCHANGED <<page, list, queue>>

\* closeExecutionDetail()
Close ==
  /\ view = "runs" /\ selected # Nobody /\ MoveTo(view)
  /\ selected' = Nobody /\ detail' = Nothing
  /\ fetch' = Superseded(fetch, "execution-detail")
  /\ UNCHANGED <<page, list, queue>>

LiveNext ==
  \/ Change \/ Connect \/ Push \/ Break \/ Receive
  \/ \E r \in Requests : Serve(r) \/ Answer(r)
  \/ OpenHistory \/ OpenDashboard \/ OpenOther \/ Close
  \/ \E p \in {1, 2} : Turn(p)
  \/ \E x \in Items : Inspect(x)

-----------------------------------------------------------------------------
(* Properties *)

\* Once the stream is open and nothing is on its way, what is in view is not
\* older than the last change of the newest page, unless the failure of its
\* last request is shown (live.js, loadExecutions, loadActiveExecutions).
QuietIsCurrent ==
  linked /\ stream = <<>> /\ sent = newest /\ fetch = [r \in Requests |-> Idle] =>
    /\ view = "runs" => list.page = page /\ (list.shown = Failed \/ list.shown >= newest)
    /\ view = "dashboard" => queue # {} /\ \A v \in queue : v = Failed \/ v >= newest

\* The execution that is shown, and that the buttons beside it act on, is the
\* one that was selected last (currentExecutionDetail).
DetailIsSelected == detail \in {Nothing, selected}

ViewAgrees == QuietIsCurrent /\ DetailIsSelected
=============================================================================
