------------------------------ MODULE Downloads ------------------------------
(***************************************************************************)
(* Downloads of artifacts: prepared ones and direct ones of                *)
(* backup/backup.service.ts, and the three transfers at once of            *)
(* storage/storage.service.ts.  An artifact on a remote target is copied   *)
(* below data/tmp first; a local one is read where it lies.                *)
(***************************************************************************)
EXTENDS Naturals, Sequences, FiniteSets

CONSTANTS
  Downloads,   \* downloads that are asked for
  Slots        \* transfers at once (3)

VARIABLES
  download,  \* per download: how far it is
  remote,    \* the downloads from remote targets
  prepared,  \* the keys of downloadPreparations
  direct,    \* the downloads without a preparation
  temps,     \* the downloads that have a directory below data/tmp
  timers,    \* the downloads whose cleanupTimer runs
  active,    \* activeDownloads
  waiters,   \* downloadWaiters
  closing    \* onApplicationShutdown() was called

downloadVars == <<download, remote, prepared, direct, temps, timers, active, waiters, closing>>

DownloadsInit ==
  /\ download = [d \in Downloads |-> "none"]
  /\ remote \in SUBSET Downloads /\ direct \in SUBSET Downloads
  /\ prepared = {} /\ temps = {} /\ timers = {}
  /\ active = 0 /\ waiters = <<>> /\ closing = FALSE

At(d, state) == download' = [download EXCEPT ![d] = state]
Fixed == UNCHANGED <<remote, direct>>

\* startDownloadPreparation() or downloadRun(), prepareDownload() and
\* download(), up to the transfer or the wait for one.
Ask(d) ==
  /\ ~closing /\ download[d] = "none"
  /\ prepared' = IF d \in direct THEN prepared ELSE prepared \cup {d}
  /\ \/ d \notin remote /\ At(d, "verifying") /\ UNCHANGED <<active, waiters, temps>>
     \/ /\ d \in remote /\ active < Slots
        /\ active' = active + 1 /\ At(d, "loading") /\ temps' = temps \cup {d} /\ UNCHANGED waiters
     \/ /\ d \in remote /\ active = Slots
        /\ waiters' = Append(waiters, d) /\ At(d, "waiting") /\ UNCHANGED <<active, temps>>
  /\ UNCHANGED <<timers, closing>> /\ Fixed

\* releaseDownloadSlot(): the slot passes to the first that waits.
Released(d, state) ==
  IF waiters = <<>>
  THEN active' = active - 1 /\ At(d, state) /\ UNCHANGED waiters
  ELSE /\ UNCHANGED active /\ waiters' = Tail(waiters)
       /\ download' = [download EXCEPT ![d] = state, ![Head(waiters)] = "loading"]

NextWaiter == {waiters[i] : i \in {1} \cap DOMAIN waiters}

\* The transfer ends, or fails.
Loaded(d) ==
  /\ download[d] = "loading" /\ Released(d, "verifying")
  /\ temps' = temps \cup NextWaiter
  /\ UNCHANGED <<prepared, timers, closing>> /\ Fixed

LoadFails(d) ==
  /\ download[d] = "loading" /\ Released(d, "failed")
  /\ temps' = (temps \ {d}) \cup NextWaiter
  /\ UNCHANGED <<prepared, timers, closing>> /\ Fixed

\* verifyDownloadedHash() agrees: a prepared one waits ten minutes to be taken.
Verified(d) ==
  /\ download[d] = "verifying"
  /\ At(d, IF d \in direct THEN "streaming" ELSE "ready")
  /\ timers' = IF d \in direct THEN timers ELSE timers \cup {d}
  /\ UNCHANGED <<prepared, temps, active, waiters, closing>> /\ Fixed

\* It does not: the copy is removed, the preparation stays, as failed.
Mismatch(d) ==
  /\ download[d] = "verifying" /\ At(d, "failed") /\ temps' = temps \ {d}
  /\ UNCHANGED <<prepared, timers, active, waiters, closing>> /\ Fixed

\* The cleanupTimer.
Expire(d) ==
  /\ d \in timers /\ timers' = timers \ {d}
  /\ IF d \in prepared
     THEN prepared' = prepared \ {d} /\ temps' = temps \ {d}
     ELSE UNCHANGED <<prepared, temps>>
  /\ At(d, IF download[d] = "ready" /\ d \notin prepared' THEN "expired" ELSE download[d])
  /\ UNCHANGED <<active, waiters, closing>> /\ Fixed

\* Mutant of Take: the preparation stays, so that it can be taken once more.
TakeKeeping(d) ==
  /\ d \in prepared /\ download[d] = "ready" /\ At(d, "streaming")
  /\ UNCHANGED <<prepared, temps, timers, active, waiters, closing>> /\ Fixed

\* takePreparedDownload()
Take(d) ==
  /\ d \in prepared /\ download[d] = "ready" /\ At(d, "streaming")
  /\ prepared' = prepared \ {d} /\ timers' = timers \ {d}
  /\ UNCHANGED <<temps, active, waiters, closing>> /\ Fixed

\* The stream closes, at its end or because the browser has gone.
StreamCloses(d) ==
  /\ download[d] = "streaming" /\ At(d, "done") /\ temps' = temps \ {d}
  /\ UNCHANGED <<prepared, timers, active, waiters, closing>> /\ Fixed

\* onApplicationShutdown()
Shutdown ==
  /\ ~closing /\ closing' = TRUE /\ prepared' = {} /\ timers' = {}
  /\ UNCHANGED <<download, temps, active, waiters>> /\ Fixed

DownloadsNext ==
  \/ \E d \in Downloads :
       Ask(d) \/ Loaded(d) \/ LoadFails(d) \/ Verified(d) \/ Mismatch(d) \/ Expire(d) \/ Take(d) \/ StreamCloses(d)
  \/ Shutdown

-----------------------------------------------------------------------------
(* Properties *)

\* Until a shutdown, each copy below data/tmp belongs to a transfer, to a
\* preparation whose timer will remove it, or to a stream that will (prepareDownload,
\* takePreparedDownload, preparedDownload).
CopiesAreOwned ==
  ~closing => \A d \in temps :
    \/ download[d] \in {"loading", "verifying", "streaming"}
    \/ download[d] = "ready" /\ d \in prepared \cap timers

\* What is streamed, or may still be taken, is there (the timer has not removed it).
StreamedIsThere == \A d \in remote : download[d] \in {"ready", "streaming"} => d \in temps

\* Transfers are as many as activeDownloads says, at most the slots, and
\* nobody waits beside a free slot (acquireDownloadSlot, releaseDownloadSlot).
TransfersBounded ==
  /\ active = Cardinality({d \in Downloads : download[d] = "loading"})
  /\ active <= Slots
  /\ {d \in Downloads : download[d] = "waiting"} = {waiters[i] : i \in DOMAIN waiters}
  /\ waiters # <<>> => active = Slots

DownloadsAgree == CopiesAreOwned /\ StreamedIsThere /\ TransfersBounded
=============================================================================
