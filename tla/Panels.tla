------------------------------- MODULE Panels -------------------------------
(***************************************************************************)
(* The table of API requests by address: counted in system.service.ts,     *)
(* told of by system/realtime.service.ts in two ways, and shown by         *)
(* public/app.js a page at a time.  Every request puts the first page of   *)
(* everybody into the event that ends a throttle; every two seconds each   *)
(* stream gets the page that it was opened for, if that has changed.       *)
(***************************************************************************)
EXTENDS Naturals, Sequences, SequencesExt, FiniteSetsExt

CONSTANTS
  Addresses,
  MaxAddresses,  \* how many are kept; one throttled event tells of them all
  MaxRecorded,   \* bound on the requests
  MaxMinutes,    \* bound on the minutes
  MaxTurns,      \* bound on the pages turned and the streams broken
  Nothing

VARIABLES
  usage,      \* apiUsage: addresses with their counts, the one seen last at the end
  minute,
  made,       \* history: requests of this minute by address
  dropped,    \* history: entries dropped in this minute
  trailing,   \* the payload that a throttled event will have
  link,       \* the stream: its page, its fingerprint, what is on its way
  wanted,     \* state.list.apiUsage.page
  asked,      \* the request of loadSessions()
  shown,      \* state.apiUsage
  recorded, turns

counters == <<usage, minute, made, dropped, recorded>>
panel == <<wanted, asked, shown>>
panelVars == <<counters, trailing, link, panel, turns>>

Closed == [open |-> FALSE, page |-> 1, fingerprint |-> Nothing, wire |-> <<>>]

Kept(a) == \E n \in DOMAIN usage : usage[n].ip = a
PlaceOf(a) == CHOOSE n \in DOMAIN usage : usage[n].ip = a
CountOf(a) == IF Kept(a) THEN usage[PlaceOf(a)].count ELSE 0

\* In the middle of a minute, after one request of as many addresses as are kept.
PanelsInit ==
  /\ usage = [n \in 1..MaxAddresses |-> [ip |-> SetToSeq(Addresses)[n], count |-> 1]]
  /\ made = [a \in Addresses |-> CountOf(a)] /\ minute = 0 /\ dropped = {}
  /\ trailing = Nothing /\ link = Closed
  /\ wanted = 1 /\ asked = Nothing /\ shown = Nothing
  /\ recorded = 0 /\ turns = 0

-----------------------------------------------------------------------------
(* What the server counts *)

\* The busiest first, and of those the one seen last.
Listed(u) ==
  LET busier(i, j) == u[i].count > u[j].count \/ (u[i].count = u[j].count /\ i > j)
  IN [n \in DOMAIN u |-> u[SetToSortSeq(DOMAIN u, busier)[n]]]

\* listApiUsage(), with pages of one row: a page that is not there is the last one.
Page(u, p) ==
  LET all == Listed(u)
      safe == Max({1, Min({p, Len(all)})})
  IN [minute |-> minute, page |-> safe, rows |-> SubSeq(all, safe, Min({safe, Len(all)}))]
Everybody(u) == [minute |-> minute, page |-> 1, rows |-> Listed(u)]

\* pruneApiUsage(): those that were seen longest ago go.
Pruned(u) == SubSeq(u, Max({1, Len(u) - MaxAddresses + 1}), Len(u))

\* recordApiRequest(): of the payloads of a throttle the last is kept.
Record(a) ==
  LET others == IF Kept(a) THEN RemoveAt(usage, PlaceOf(a)) ELSE usage
      counted == Append(others, [ip |-> a, count |-> CountOf(a) + 1])
  IN /\ recorded < MaxRecorded /\ recorded' = recorded + 1
     /\ usage' = Pruned(counted)
     /\ made' = [made EXCEPT ![a] = @ + 1]
     /\ dropped' = dropped \cup (ToSet(counted) \ ToSet(Pruned(counted)))
     /\ trailing' = Everybody(Pruned(counted))
     /\ UNCHANGED <<minute, link, panel, turns>>

\* The entries of another minute are not listed, and go with the next request.
Minute ==
  /\ minute < MaxMinutes /\ minute' = minute + 1
  /\ usage' = <<>> /\ made' = [a \in Addresses |-> 0] /\ dropped' = {}
  /\ UNCHANGED <<trailing, link, panel, turns, recorded>>

-----------------------------------------------------------------------------
(* The stream *)

Own == Page(usage, link.page)

Written(payload) == [link EXCEPT !.wire = Append(@, payload), !.fingerprint = payload]

\* publish() to whoever listens.
Published(payload) == IF link.open THEN Written(payload) ELSE link

\* The throttle's timer.
Flush ==
  /\ trailing # Nothing /\ trailing' = Nothing
  /\ link' = Published(trailing)
  /\ UNCHANGED <<counters, panel, turns>>

\* pushConnectionSnapshots(), of this topic.
Push ==
  /\ link.open /\ Own # link.fingerprint
  /\ link' = Written(Own)
  /\ UNCHANGED <<counters, trailing, panel, turns>>

\* connect(), with the snapshot for this page.
Opened(p) == [open |-> TRUE, page |-> p, fingerprint |-> Page(usage, p), wire |-> <<Page(usage, p)>>]

\* The EventSource opens the stream again, with the address it has.
Reopen ==
  /\ ~link.open /\ link' = Opened(link.page)
  /\ UNCHANGED <<counters, trailing, panel, turns>>

\* What is on its way is lost.
Break ==
  /\ link.open /\ turns < MaxTurns /\ turns' = turns + 1
  /\ link' = [Closed EXCEPT !.page = link.page]
  /\ UNCHANGED <<counters, trailing, panel>>

-----------------------------------------------------------------------------
(* The browser *)

\* The listener of connectRealtime() takes whatever comes.
Receive ==
  /\ link.wire # <<>>
  /\ shown' = Head(link.wire) /\ link' = [link EXCEPT !.wire = Tail(@)]
  /\ UNCHANGED <<counters, trailing, wanted, asked, turns>>

\* renderApiUsagePagination(): loadSessions() does nothing while a request is under way,
\* whose answer then says which page it is.
Turn(p) ==
  /\ turns < MaxTurns /\ turns' = turns + 1
  /\ wanted' = p
  /\ asked' = IF asked = Nothing THEN [page |-> p, answer |-> Nothing] ELSE asked
  /\ UNCHANGED <<counters, trailing, link, shown>>

Serve ==
  /\ asked # Nothing /\ asked.answer = Nothing
  /\ asked' = [asked EXCEPT !.answer = Page(usage, asked.page)]
  /\ UNCHANGED <<counters, trailing, link, wanted, shown, turns>>

\* loadSessions(): the answer is shown, and a stream is opened for its page.
Answer ==
  /\ asked # Nothing /\ asked.answer # Nothing
  /\ asked' = Nothing /\ shown' = asked.answer /\ wanted' = asked.answer.page
  /\ link' = Opened(asked.answer.page)
  /\ UNCHANGED <<counters, trailing, turns>>

\* A request that fails changes nothing: the page that is wanted is not the one shown.
AnswerFails ==
  /\ asked # Nothing /\ asked' = Nothing
  /\ UNCHANGED <<counters, trailing, link, wanted, shown, turns>>

PanelsNext ==
  \/ \E a \in Addresses : Record(a)
  \/ Minute \/ Flush \/ Push \/ Reopen \/ Break \/ Receive
  \/ \E p \in 1..MaxAddresses : Turn(p)
  \/ Serve \/ Answer \/ AnswerFails

PanelsSpec == PanelsInit /\ [][PanelsNext]_panelVars

-----------------------------------------------------------------------------
(* Properties *)

\* Once the stream is open, with nothing on its way and nothing that a push would send,
\* the page of the stream is shown as it is now, whatever was told to everybody, lost
\* or answered in between.
RestIsOwnPage == link.open /\ link.wire = <<>> /\ Own = link.fingerprint => shown = Own

\* The event that ends a throttle tells of the last request of its minute.
TrailingIsLast == trailing # Nothing /\ trailing.minute = minute => trailing.rows = Listed(usage)

\* An address that has not been dropped has all its requests counted, and no address
\* has more.
CountsTrue ==
  \A a \in Addresses : CountOf(a) <= made[a] /\ ((\A d \in dropped : d.ip # a) => CountOf(a) = made[a])

PanelAgrees == RestIsOwnPage /\ TrailingIsLast /\ CountsTrue
=============================================================================
