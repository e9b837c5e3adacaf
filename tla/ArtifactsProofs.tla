--------------------------- MODULE ArtifactsProofs ---------------------------
(***************************************************************************)
(* Proofs about what people are given of artifacts: downloads, restores,   *)
(* the coverage of point-in-time recovery, the sessions that entitle to    *)
(* it, and the page a browser shows.  Each is an invariant of its own,     *)
(* which no other side of MCArtifacts touches.                             *)
(***************************************************************************)
EXTENDS MCArtifacts, FiniteSetTheorems, SequenceTheorems, TLAPS

-----------------------------------------------------------------------------
(* Downloads *)

DownloadStates ==
  {"none", "waiting", "loading", "verifying", "ready", "streaming", "failed", "expired", "done"}

DownloadTypes ==
  /\ download \in [Downloads -> DownloadStates]
  /\ remote \subseteq Downloads /\ direct \subseteq Downloads /\ prepared \subseteq Downloads
  /\ temps \subseteq Downloads /\ timers \subseteq Downloads
  /\ active \in Nat /\ waiters \in Seq(Downloads) /\ closing \in BOOLEAN

\* Everyone waits once.
WaitOnce == \A i, j \in DOMAIN waiters : i # j => waiters[i] # waiters[j]

\* A timer runs for what is ready; until a shutdown what is asked for by a
\* preparation has one; and what a remote target gives has a copy until its end.
Kept ==
  /\ \A d \in timers : download[d] = "ready"
  /\ \A d \in Downloads :
       /\ download[d] = "ready" => d \notin direct
       /\ ~closing /\ d \notin direct /\ download[d] \in {"waiting", "loading", "verifying", "ready"} => d \in prepared
       /\ d \in remote /\ download[d] \in {"loading", "verifying", "ready", "streaming"} => d \in temps

DownloadInv == DownloadTypes /\ WaitOnce /\ Kept /\ Download!DownloadsAgree

\* Those who transfer, with one more or one less.
LEMMA Transfers ==
  ASSUME NEW d \in Downloads, NEW S \in SUBSET Downloads
  PROVE  /\ IsFiniteSet(S) /\ Cardinality(S) \in Nat
         /\ d \notin S => Cardinality(S \cup {d}) = Cardinality(S) + 1
         /\ d \in S => Cardinality(S \ {d}) = Cardinality(S) - 1
<1>1. IsFiniteSet(S) /\ Cardinality(S) \in Nat
  BY ArtifactsAssumption, FS_Subset, FS_CardinalityType
<1> QED
  BY <1>1, FS_AddElement, FS_RemoveElement

\* The queue, with one more at its end or without its first.
LEMMA QueueFacts ==
  ASSUME DownloadTypes, WaitOnce
  PROVE  /\ \A d \in Downloads :
              d \notin {waiters[i] : i \in DOMAIN waiters} =>
                LET q == Append(waiters, d) IN
                /\ q \in Seq(Downloads) /\ q # <<>>
                /\ {q[i] : i \in DOMAIN q} = {waiters[i] : i \in DOMAIN waiters} \cup {d}
                /\ \A i, j \in DOMAIN q : i # j => q[i] # q[j]
         /\ waiters # <<>> =>
                LET q == Tail(waiters) IN
                /\ Head(waiters) \in {waiters[i] : i \in DOMAIN waiters}
                /\ Download!NextWaiter = {Head(waiters)} /\ Head(waiters) \in Downloads
                /\ q \in Seq(Downloads)
                /\ {q[i] : i \in DOMAIN q} = {waiters[i] : i \in DOMAIN waiters} \ {Head(waiters)}
                /\ \A i, j \in DOMAIN q : i # j => q[i] # q[j]
         /\ waiters = <<>> => Download!NextWaiter = {} /\ {waiters[i] : i \in DOMAIN waiters} = {}
<1>0. waiters \in Seq(Downloads) /\ DOMAIN waiters = 1 .. Len(waiters) /\ Len(waiters) \in Nat
  BY DEF DownloadTypes
<1>1. ASSUME NEW d \in Downloads, d \notin {waiters[i] : i \in DOMAIN waiters}
      PROVE  LET q == Append(waiters, d) IN
             /\ q \in Seq(Downloads) /\ q # <<>>
             /\ {q[i] : i \in DOMAIN q} = {waiters[i] : i \in DOMAIN waiters} \cup {d}
             /\ \A i, j \in DOMAIN q : i # j => q[i] # q[j]
  <2> DEFINE q == Append(waiters, d)
  <2>1. /\ q \in Seq(Downloads) /\ DOMAIN q = DOMAIN waiters \cup {Len(waiters) + 1} /\ q[Len(waiters) + 1] = d /\ q # <<>>
        /\ \A i \in DOMAIN waiters : q[i] = waiters[i]
    BY <1>0
  <2>2. Len(waiters) + 1 \notin DOMAIN waiters
    BY <1>0
  <2> HIDE DEF q
  <2>3. \A i, j \in DOMAIN q : i # j => q[i] # q[j]
    BY <1>1, <2>1, <2>2 DEF WaitOnce
  <2>4. {q[i] : i \in DOMAIN q} = {waiters[i] : i \in DOMAIN waiters} \cup {d}
    BY <2>1, <2>2
  <2> QED
    BY <2>1, <2>3, <2>4 DEF q
<1>2. ASSUME waiters # <<>>
      PROVE  LET q == Tail(waiters) IN
             /\ Head(waiters) \in {waiters[i] : i \in DOMAIN waiters}
             /\ Download!NextWaiter = {Head(waiters)} /\ Head(waiters) \in Downloads
             /\ q \in Seq(Downloads)
             /\ {q[i] : i \in DOMAIN q} = {waiters[i] : i \in DOMAIN waiters} \ {Head(waiters)}
             /\ \A i, j \in DOMAIN q : i # j => q[i] # q[j]
  <2> DEFINE q == Tail(waiters)
  <2>0. 1 \in DOMAIN waiters
    BY <1>0, <1>2
  <2>1. Head(waiters) = waiters[1] /\ Head(waiters) \in Downloads
    BY <1>0, <1>2, <2>0
  <2>2. /\ q \in Seq(Downloads) /\ DOMAIN q = 1 .. Len(waiters) - 1
        /\ \A i \in 1 .. Len(waiters) - 1 : q[i] = waiters[i + 1] /\ i + 1 \in DOMAIN waiters
    BY <1>0, <1>2
  <2>3. \A k \in DOMAIN waiters : k # 1 => k - 1 \in DOMAIN q /\ q[k - 1] = waiters[k]
    <3>1. ASSUME NEW k \in DOMAIN waiters, k # 1
          PROVE  k - 1 \in 1 .. Len(waiters) - 1 /\ (k - 1) + 1 = k
      BY <1>0, <3>1
    <3> QED
      BY <2>2, <3>1
  <2>4. Download!NextWaiter = {Head(waiters)}
    BY <2>0, <2>1 DEF Download!NextWaiter
  <2> HIDE DEF q
  <2>5. {q[i] : i \in DOMAIN q} = {waiters[i] : i \in DOMAIN waiters} \ {Head(waiters)}
    <3>1. ASSUME NEW i \in DOMAIN q
          PROVE  q[i] \in {waiters[k] : k \in DOMAIN waiters} /\ q[i] # Head(waiters)
      <4>1. i + 1 # 1 /\ i + 1 \in DOMAIN waiters /\ q[i] = waiters[i + 1]
        BY <1>0, <2>2
      <4> QED
        BY <2>0, <2>1, <4>1 DEF WaitOnce
    <3>2. ASSUME NEW k \in DOMAIN waiters, waiters[k] # Head(waiters)
          PROVE  waiters[k] \in {q[i] : i \in DOMAIN q}
      BY <2>1, <2>3, <3>2
    <3> QED
      BY <3>1, <3>2
  <2>6. \A i, j \in DOMAIN q : i # j => q[i] # q[j]
    <3>1. ASSUME NEW i \in DOMAIN q, NEW j \in DOMAIN q, i # j
          PROVE  i + 1 # j + 1
      BY <1>0, <2>2, <3>1
    <3> QED
      BY <2>2, <3>1 DEF WaitOnce
  <2> QED
    BY <2>0, <2>1, <2>2, <2>4, <2>5, <2>6 DEF q
<1>3. waiters = <<>> => Download!NextWaiter = {} /\ {waiters[i] : i \in DOMAIN waiters} = {}
  BY <1>0 DEF Download!NextWaiter
<1> QED
  BY <1>1, <1>2, <1>3

\* Those who transfer, of a function of states.
LoadingIn(f) == {d \in Downloads : f[d] = "loading"}

\* One download goes into another state.
LEMMA Moves ==
  ASSUME DownloadTypes, NEW d \in Downloads, NEW s \in DownloadStates
  PROVE  LET new == [download EXCEPT ![d] = s] IN
         /\ new \in [Downloads -> DownloadStates]
         /\ new[d] = s /\ \A e \in Downloads \ {d} : new[e] = download[e]
         /\ IF s = "loading"
            THEN IF download[d] = "loading" THEN Cardinality(LoadingIn(new)) = Cardinality(LoadingIn(download))
                 ELSE Cardinality(LoadingIn(new)) = Cardinality(LoadingIn(download)) + 1
            ELSE IF download[d] = "loading" THEN Cardinality(LoadingIn(new)) = Cardinality(LoadingIn(download)) - 1
                 ELSE Cardinality(LoadingIn(new)) = Cardinality(LoadingIn(download))
<1> DEFINE new == [download EXCEPT ![d] = s]
<1>1. new \in [Downloads -> DownloadStates] /\ new[d] = s /\ \A e \in Downloads \ {d} : new[e] = download[e]
  BY DEF DownloadTypes
<1> HIDE DEF new
<1>2. LoadingIn(new) = IF s = "loading" THEN LoadingIn(download) \cup {d} ELSE LoadingIn(download) \ {d}
  BY <1>1 DEF LoadingIn
<1>3. d \in LoadingIn(download) <=> download[d] = "loading"
  BY DEF LoadingIn
<1>4. LoadingIn(download) \in SUBSET Downloads
  BY DEF LoadingIn
<1>5. /\ d \notin LoadingIn(download) => Cardinality(LoadingIn(download) \cup {d}) = Cardinality(LoadingIn(download)) + 1
      /\ d \in LoadingIn(download) => Cardinality(LoadingIn(download) \ {d}) = Cardinality(LoadingIn(download)) - 1
  BY <1>4, Transfers
<1>6. /\ d \in LoadingIn(download) => LoadingIn(download) \cup {d} = LoadingIn(download)
      /\ d \notin LoadingIn(download) => LoadingIn(download) \ {d} = LoadingIn(download)
  OBVIOUS
<1>7. IF s = "loading"
      THEN IF download[d] = "loading" THEN Cardinality(LoadingIn(new)) = Cardinality(LoadingIn(download))
           ELSE Cardinality(LoadingIn(new)) = Cardinality(LoadingIn(download)) + 1
      ELSE IF download[d] = "loading" THEN Cardinality(LoadingIn(new)) = Cardinality(LoadingIn(download)) - 1
           ELSE Cardinality(LoadingIn(new)) = Cardinality(LoadingIn(download))
  BY <1>2, <1>3, <1>5, <1>6
<1> QED
  BY <1>1, <1>7 DEF new

\* A slot passes to the first that waits.
LEMMA Passes ==
  ASSUME DownloadInv, NEW d \in Downloads, download[d] = "loading", waiters # <<>>, NEW s \in DownloadStates, s # "loading"
  PROVE  LET h == Head(waiters)
             new == [download EXCEPT ![d] = s, ![h] = "loading"] IN
         /\ h \in Downloads /\ h # d /\ download[h] = "waiting"
         /\ new \in [Downloads -> DownloadStates]
         /\ new[d] = s /\ new[h] = "loading" /\ \A e \in Downloads \ {d, h} : new[e] = download[e]
         /\ Cardinality(LoadingIn(new)) = Cardinality(LoadingIn(download))
<1> DEFINE h == Head(waiters)
           new == [download EXCEPT ![d] = s, ![h] = "loading"]
<1>0. DownloadTypes /\ WaitOnce
  BY DEF DownloadInv
<1>1. h \in Downloads /\ h \in {waiters[i] : i \in DOMAIN waiters}
  BY <1>0, QueueFacts
<1>2. download[h] = "waiting"
  BY <1>1 DEF DownloadInv, Download!DownloadsAgree, Download!TransfersBounded
<1>3. h # d
  BY <1>2
<1> HIDE DEF h
<1>4. /\ new \in [Downloads -> DownloadStates] /\ new[d] = s /\ new[h] = "loading"
      /\ \A e \in Downloads \ {d, h} : new[e] = download[e]
  BY <1>0, <1>1, <1>3 DEF DownloadTypes, DownloadStates
<1> HIDE DEF new
<1>5. LoadingIn(new) = (LoadingIn(download) \ {d}) \cup {h}
  BY <1>1, <1>3, <1>4 DEF LoadingIn
<1>6. d \in LoadingIn(download) /\ h \notin LoadingIn(download) \ {d}
  BY <1>1, <1>2 DEF LoadingIn
<1>7. LoadingIn(download) \in SUBSET Downloads /\ LoadingIn(download) \ {d} \in SUBSET Downloads
  BY DEF LoadingIn
<1>8. Cardinality(LoadingIn(download) \ {d}) = Cardinality(LoadingIn(download)) - 1 /\ Cardinality(LoadingIn(download)) \in Nat
  BY <1>6, <1>7, Transfers
<1>9. Cardinality((LoadingIn(download) \ {d}) \cup {h}) = Cardinality(LoadingIn(download) \ {d}) + 1
  BY <1>1, <1>6, <1>7, Transfers
<1>10. Cardinality(LoadingIn(new)) = Cardinality(LoadingIn(download))
  BY <1>5, <1>8, <1>9
<1> QED
  BY <1>1, <1>2, <1>3, <1>4, <1>10 DEF new, h

\* Those in a queue.
Waiting(q) == {q[i] : i \in DOMAIN q}

\* TransfersBounded, of any states, queue and count.
Bounded(f, q, n) ==
  /\ n = Cardinality(LoadingIn(f)) /\ n <= Slots
  /\ {d \in Downloads : f[d] = "waiting"} = Waiting(q)
  /\ q # <<>> => n = Slots

\* The module of the downloads counts as this one does.
LEMMA SameCount == \A S : Download!Cardinality(S) = Cardinality(S)
  BY DEF Cardinality, Download!Cardinality

LEMMA BoundedBy ==
  /\ Download!TransfersBounded <=> Bounded(download, waiters, active)
  /\ (Download!TransfersBounded)' <=> Bounded(download', waiters', active')
<1>1. Download!TransfersBounded <=> Bounded(download, waiters, active)
  <2> DEFINE loading == {d \in Downloads : download[d] = "loading"}
             waits == {d \in Downloads : download[d] = "waiting"}
             queued == {waiters[i] : i \in DOMAIN waiters}
  <2>1. loading = LoadingIn(download) /\ queued = Waiting(waiters)
    BY DEF LoadingIn, Waiting
  <2>2. Download!TransfersBounded <=>
          /\ active = Cardinality(loading) /\ active <= Slots
          /\ waits = queued /\ (waiters # <<>> => active = Slots)
    BY SameCount DEF Download!TransfersBounded
  <2>3. Bounded(download, waiters, active) <=>
          /\ active = Cardinality(LoadingIn(download)) /\ active <= Slots
          /\ waits = Waiting(waiters) /\ (waiters # <<>> => active = Slots)
    BY DEF Bounded
  <2> HIDE DEF loading, waits, queued
  <2> QED
    BY <2>1, <2>2, <2>3
<1>2. (Download!TransfersBounded)' <=> Bounded(download', waiters', active')
  <2> DEFINE loading == {d \in Downloads : download'[d] = "loading"}
             waits == {d \in Downloads : download'[d] = "waiting"}
             queued == {waiters'[i] : i \in DOMAIN waiters'}
  <2>1. loading = LoadingIn(download') /\ queued = Waiting(waiters')
    BY DEF LoadingIn, Waiting
  <2>2. (Download!TransfersBounded)' <=>
          /\ active' = Cardinality(loading) /\ active' <= Slots
          /\ waits = queued /\ (waiters' # <<>> => active' = Slots)
    BY SameCount DEF Download!TransfersBounded
  <2>3. Bounded(download', waiters', active') <=>
          /\ active' = Cardinality(LoadingIn(download')) /\ active' <= Slots
          /\ waits = Waiting(waiters') /\ (waiters' # <<>> => active' = Slots)
    BY DEF Bounded
  <2> HIDE DEF loading, waits, queued
  <2> QED
    BY <2>1, <2>2, <2>3
<1> QED
  BY <1>1, <1>2

\* A step that leaves those who wait, and those who transfer, as they are.
LEMMA Elsewhere ==
  ASSUME DownloadInv, UNCHANGED <<active, waiters, remote, direct>>,
         NEW d \in Downloads, NEW s \in DownloadStates \ {"loading", "waiting"},
         download[d] \notin {"loading", "waiting"}, download' = [download EXCEPT ![d] = s]
  PROVE  /\ download' \in [Downloads -> DownloadStates] /\ download'[d] = s
         /\ \A e \in Downloads \ {d} : download'[e] = download[e]
         /\ (WaitOnce)' /\ (Download!TransfersBounded)'
         /\ active' \in Nat /\ waiters' \in Seq(Downloads) /\ remote' \subseteq Downloads /\ direct' \subseteq Downloads
<1>0. DownloadTypes /\ WaitOnce /\ Download!TransfersBounded
  BY DEF DownloadInv, Download!DownloadsAgree
<1>1. /\ download' \in [Downloads -> DownloadStates] /\ download'[d] = s
      /\ \A e \in Downloads \ {d} : download'[e] = download[e]
      /\ Cardinality(LoadingIn(download')) = Cardinality(LoadingIn(download))
  BY <1>0, Moves
<1>2. {e \in Downloads : download'[e] = "waiting"} = {e \in Downloads : download[e] = "waiting"}
  BY <1>1
<1>3. (WaitOnce)'
  BY <1>0 DEF WaitOnce
<1>4. Bounded(download, waiters, active)
  BY <1>0, BoundedBy
<1>5. Bounded(download', waiters', active')
  BY <1>1, <1>2, <1>4 DEF Bounded
<1>6. (Download!TransfersBounded)'
  BY <1>5, BoundedBy
<1> QED
  BY <1>0, <1>1, <1>3, <1>6 DEF DownloadTypes

\* Asking: a local one is verified, a remote one transferred, or it waits.
LEMMA AskKeeps ==
  ASSUME DownloadInv, NEW d \in Downloads, Download!Ask(d) PROVE DownloadInv'
<1>0. /\ DownloadTypes /\ WaitOnce /\ Kept /\ Download!CopiesAreOwned /\ Download!StreamedIsThere
      /\ Download!TransfersBounded
  BY DEF DownloadInv, Download!DownloadsAgree
<1>1. /\ ~closing /\ download[d] = "none" /\ UNCHANGED <<timers, closing, remote, direct>>
      /\ prepared' = IF d \in direct THEN prepared ELSE prepared \cup {d}
  BY DEF Download!Ask, Download!Fixed
<1>2. CASE d \notin remote /\ Download!At(d, "verifying") /\ UNCHANGED <<active, waiters, temps>>
  <2>1. /\ download' \in [Downloads -> DownloadStates] /\ download'[d] = "verifying"
        /\ \A e \in Downloads \ {d} : download'[e] = download[e]
        /\ (WaitOnce)' /\ (Download!TransfersBounded)'
        /\ active' \in Nat /\ waiters' \in Seq(Downloads) /\ remote' \subseteq Downloads /\ direct' \subseteq Downloads
    BY <1>1, <1>2, Elsewhere DEF Download!At, DownloadStates
  <2>2. DownloadTypes'
    BY <1>0, <1>1, <1>2, <2>1 DEF DownloadTypes
  <2>3. Kept'
    BY <1>0, <1>1, <1>2, <2>1 DEF Kept, DownloadTypes
  <2>4. (Download!CopiesAreOwned)' /\ (Download!StreamedIsThere)'
    BY <1>0, <1>1, <1>2, <2>1 DEF Download!CopiesAreOwned, Download!StreamedIsThere, DownloadTypes
  <2> QED
    BY <2>1, <2>2, <2>3, <2>4 DEF DownloadInv, Download!DownloadsAgree
<1>3. CASE /\ d \in remote /\ active < Slots
           /\ active' = active + 1 /\ Download!At(d, "loading") /\ temps' = temps \cup {d} /\ UNCHANGED waiters
  <2>1. /\ download' \in [Downloads -> DownloadStates] /\ download'[d] = "loading"
        /\ \A e \in Downloads \ {d} : download'[e] = download[e]
        /\ Cardinality(LoadingIn(download')) = Cardinality(LoadingIn(download)) + 1
    <3>1. download' = [download EXCEPT ![d] = "loading"] /\ download[d] # "loading" /\ "loading" \in DownloadStates
      BY <1>1, <1>3 DEF Download!At, DownloadStates
    <3> QED
      BY <1>0, <3>1, Moves
  <2>2. DownloadTypes' /\ WaitOnce'
    BY <1>0, <1>1, <1>3, <2>1 DEF DownloadTypes, WaitOnce
  <2>3. Kept'
    BY <1>0, <1>1, <1>3, <2>1 DEF Kept, DownloadTypes
  <2>4. (Download!CopiesAreOwned)' /\ (Download!StreamedIsThere)'
    BY <1>0, <1>1, <1>3, <2>1 DEF Download!CopiesAreOwned, Download!StreamedIsThere, DownloadTypes
  <2>5. {e \in Downloads : download'[e] = "waiting"} = {e \in Downloads : download[e] = "waiting"}
    BY <1>1, <2>1
  <2>6. active' = Cardinality(LoadingIn(download')) /\ active' <= Slots /\ waiters = <<>>
    BY <1>0, <1>3, <2>1, BoundedBy, ArtifactsAssumption DEF DownloadTypes, Bounded
  <2>7. (Download!TransfersBounded)'
    BY <1>0, <1>3, <2>5, <2>6, BoundedBy DEF Bounded
  <2> QED
    BY <2>2, <2>3, <2>4, <2>7 DEF DownloadInv, Download!DownloadsAgree
<1>4. CASE /\ d \in remote /\ active = Slots
           /\ waiters' = Append(waiters, d) /\ Download!At(d, "waiting") /\ UNCHANGED <<active, temps>>
  <2>1. /\ download' \in [Downloads -> DownloadStates] /\ download'[d] = "waiting"
        /\ \A e \in Downloads \ {d} : download'[e] = download[e]
        /\ Cardinality(LoadingIn(download')) = Cardinality(LoadingIn(download))
    BY <1>0, <1>1, <1>4, Moves DEF Download!At, DownloadStates
  <2>2. d \notin {waiters[i] : i \in DOMAIN waiters}
    BY <1>0, <1>1 DEF Download!TransfersBounded
  <2>3. /\ waiters' \in Seq(Downloads)
        /\ {waiters'[i] : i \in DOMAIN waiters'} = {waiters[i] : i \in DOMAIN waiters} \cup {d}
        /\ \A i, j \in DOMAIN waiters' : i # j => waiters'[i] # waiters'[j]
    BY <1>0, <1>4, <2>2, QueueFacts
  <2>4. DownloadTypes' /\ WaitOnce'
    BY <1>0, <1>1, <1>4, <2>1, <2>3 DEF DownloadTypes, WaitOnce
  <2>5. Kept'
    BY <1>0, <1>1, <1>4, <2>1 DEF Kept, DownloadTypes
  <2>6. (Download!CopiesAreOwned)' /\ (Download!StreamedIsThere)'
    BY <1>0, <1>1, <1>4, <2>1 DEF Download!CopiesAreOwned, Download!StreamedIsThere, DownloadTypes
  <2>7. {e \in Downloads : download'[e] = "waiting"} = {e \in Downloads : download[e] = "waiting"} \cup {d}
    BY <1>1, <2>1
  <2>8. active' = Cardinality(LoadingIn(download')) /\ active' <= Slots /\ active' = Slots
    BY <1>0, <1>4, <2>1, BoundedBy DEF Bounded
  <2>9. Waiting(waiters') = Waiting(waiters) \cup {d}
    BY <2>3 DEF Waiting
  <2>10. (Download!TransfersBounded)'
    BY <1>0, <2>7, <2>8, <2>9, BoundedBy DEF Bounded
  <2> QED
    BY <2>4, <2>5, <2>6, <2>10 DEF DownloadInv, Download!DownloadsAgree
<1> QED
  BY <1>2, <1>3, <1>4 DEF Download!Ask

\* A transfer ends in one of two states: its slot is free, or passes on.
LEMMA ReleaseKeeps ==
  ASSUME DownloadInv, NEW d \in Downloads, NEW s \in {"verifying", "failed"},
         download[d] = "loading", Download!Released(d, s),
         temps' = (IF s = "verifying" THEN temps ELSE temps \ {d}) \cup Download!NextWaiter,
         UNCHANGED <<prepared, timers, closing, remote, direct>>
  PROVE  DownloadInv'
<1>0. /\ DownloadTypes /\ WaitOnce /\ Kept /\ Download!CopiesAreOwned /\ Download!StreamedIsThere
      /\ Download!TransfersBounded
  BY DEF DownloadInv, Download!DownloadsAgree
<1>s. s \in DownloadStates /\ s # "loading" /\ s # "waiting"
  BY DEF DownloadStates
<1>1. CASE waiters = <<>>
  <2>1. Download!NextWaiter = {} /\ active' = active - 1 /\ download' = [download EXCEPT ![d] = s] /\ waiters' = waiters
    BY <1>0, <1>1, QueueFacts DEF Download!Released, Download!At
  <2>2. /\ download' \in [Downloads -> DownloadStates] /\ download'[d] = s
        /\ \A e \in Downloads \ {d} : download'[e] = download[e]
        /\ Cardinality(LoadingIn(download')) = Cardinality(LoadingIn(download)) - 1
    BY <1>0, <1>s, <2>1, Moves
  <2>3. active' \in Nat
    <3>1. LoadingIn(download') \in SUBSET Downloads
      BY DEF LoadingIn
    <3>2. Cardinality(LoadingIn(download')) \in Nat
      BY <3>1, Transfers
    <3> QED
      BY <1>0, <2>1, <2>2, <3>2, BoundedBy DEF Bounded
  <2>4. DownloadTypes' /\ WaitOnce'
    BY <1>0, <2>1, <2>2, <2>3 DEF DownloadTypes, WaitOnce
  <2>5. Kept'
    BY <1>0, <2>1, <2>2 DEF Kept, DownloadTypes
  <2>6. (Download!CopiesAreOwned)' /\ (Download!StreamedIsThere)'
    BY <1>0, <2>1, <2>2 DEF Download!CopiesAreOwned, Download!StreamedIsThere, DownloadTypes
  <2>7. {e \in Downloads : download'[e] = "waiting"} = {e \in Downloads : download[e] = "waiting"}
    BY <1>s, <2>2
  <2>8. active' = Cardinality(LoadingIn(download')) /\ active' <= Slots
    BY <1>0, <2>1, <2>2, BoundedBy, ArtifactsAssumption DEF DownloadTypes, Bounded
  <2>9. (Download!TransfersBounded)'
    BY <1>0, <1>1, <2>1, <2>7, <2>8, BoundedBy DEF Bounded
  <2> QED
    BY <2>4, <2>5, <2>6, <2>9 DEF DownloadInv, Download!DownloadsAgree
<1>2. CASE waiters # <<>>
  <2> DEFINE h == Head(waiters)
  <2>1. /\ Download!NextWaiter = {h} /\ active' = active /\ download' = [download EXCEPT ![d] = s, ![h] = "loading"]
        /\ waiters' = Tail(waiters)
    BY <1>0, <1>2, QueueFacts DEF Download!Released
  <2>2. /\ h \in Downloads /\ h # d /\ download[h] = "waiting"
        /\ download' \in [Downloads -> DownloadStates] /\ download'[d] = s /\ download'[h] = "loading"
        /\ \A e \in Downloads \ {d, h} : download'[e] = download[e]
        /\ Cardinality(LoadingIn(download')) = Cardinality(LoadingIn(download))
    BY <1>2, <1>s, <2>1, Passes
  <2>3. /\ waiters' \in Seq(Downloads)
        /\ {waiters'[i] : i \in DOMAIN waiters'} = {waiters[i] : i \in DOMAIN waiters} \ {h}
        /\ \A i, j \in DOMAIN waiters' : i # j => waiters'[i] # waiters'[j]
    <3> DEFINE q == Tail(waiters)
    <3>1. /\ q \in Seq(Downloads)
          /\ {q[i] : i \in DOMAIN q} = {waiters[i] : i \in DOMAIN waiters} \ {h}
          /\ \A i, j \in DOMAIN q : i # j => q[i] # q[j]
      BY <1>0, <1>2, QueueFacts, Zenon
    <3>2. q = waiters'
      BY <2>1
    <3> HIDE DEF q
    <3> QED
      BY <3>1, <3>2, Zenon
  <2> HIDE DEF h
  <2>4. DownloadTypes' /\ WaitOnce'
    BY <1>0, <2>1, <2>2, <2>3 DEF DownloadTypes, WaitOnce
  <2>5. Kept'
    BY <1>0, <2>1, <2>2 DEF Kept, DownloadTypes
  <2>6. (Download!CopiesAreOwned)' /\ (Download!StreamedIsThere)'
    BY <1>0, <2>1, <2>2 DEF Download!CopiesAreOwned, Download!StreamedIsThere, DownloadTypes, Kept
  <2>7. {e \in Downloads : download'[e] = "waiting"} = {e \in Downloads : download[e] = "waiting"} \ {h}
    BY <1>s, <2>2
  <2>8. active' = Cardinality(LoadingIn(download')) /\ active' <= Slots /\ active' = Slots
    BY <1>0, <1>2, <2>1, <2>2, BoundedBy DEF Bounded
  <2>9. Waiting(waiters') = Waiting(waiters) \ {h}
    BY <2>3 DEF Waiting
  <2>10. (Download!TransfersBounded)'
    BY <1>0, <2>7, <2>8, <2>9, BoundedBy DEF Bounded
  <2> QED
    BY <2>4, <2>5, <2>6, <2>10 DEF DownloadInv, Download!DownloadsAgree
<1> QED
  BY <1>1, <1>2

\* What is verified streams, or waits to be taken.
LEMMA VerifiedKeeps ==
  ASSUME DownloadInv, NEW d \in Downloads, Download!Verified(d) PROVE DownloadInv'
<1> DEFINE s == IF d \in direct THEN "streaming" ELSE "ready"
<1>0. DownloadTypes /\ Kept /\ Download!CopiesAreOwned /\ Download!StreamedIsThere
  BY DEF DownloadInv, Download!DownloadsAgree
<1>1. /\ download[d] = "verifying" /\ download' = [download EXCEPT ![d] = s]
      /\ UNCHANGED <<active, waiters, closing, remote, direct>>
  BY DEF Download!Verified, Download!At, Download!Fixed
<1>2. s \in DownloadStates \ {"loading", "waiting"} /\ download[d] \notin {"loading", "waiting"}
  BY <1>1 DEF DownloadStates
<1> HIDE DEF s
<1>3. /\ download' \in [Downloads -> DownloadStates] /\ download'[d] = s
      /\ \A e \in Downloads \ {d} : download'[e] = download[e]
      /\ (WaitOnce)' /\ (Download!TransfersBounded)'
      /\ active' \in Nat /\ waiters' \in Seq(Downloads) /\ remote' \subseteq Downloads /\ direct' \subseteq Downloads
  BY <1>1, <1>2, Elsewhere
<1>4. DownloadTypes'
  BY <1>0, <1>1, <1>3 DEF DownloadTypes, Download!Verified
<1>5. Kept'
  BY <1>0, <1>1, <1>3 DEF Kept, DownloadTypes, Download!Verified, s
<1>6. (Download!CopiesAreOwned)' /\ (Download!StreamedIsThere)'
  BY <1>0, <1>1, <1>3 DEF Download!CopiesAreOwned, Download!StreamedIsThere, DownloadTypes, Download!Verified, Kept, s
<1> QED
  BY <1>3, <1>4, <1>5, <1>6 DEF DownloadInv, Download!DownloadsAgree

\* What does not verify leaves no copy.
LEMMA MismatchKeeps ==
  ASSUME DownloadInv, NEW d \in Downloads, Download!Mismatch(d) PROVE DownloadInv'
<1> DEFINE s == "failed"
<1>0. DownloadTypes /\ Kept /\ Download!CopiesAreOwned /\ Download!StreamedIsThere
  BY DEF DownloadInv, Download!DownloadsAgree
<1>1. /\ download[d] = "verifying" /\ download' = [download EXCEPT ![d] = s]
      /\ UNCHANGED <<active, waiters, closing, remote, direct>>
  BY DEF Download!Mismatch, Download!At, Download!Fixed
<1>2. s \in DownloadStates \ {"loading", "waiting"} /\ download[d] \notin {"loading", "waiting"}
  BY <1>1 DEF DownloadStates
<1> HIDE DEF s
<1>3. /\ download' \in [Downloads -> DownloadStates] /\ download'[d] = s
      /\ \A e \in Downloads \ {d} : download'[e] = download[e]
      /\ (WaitOnce)' /\ (Download!TransfersBounded)'
      /\ active' \in Nat /\ waiters' \in Seq(Downloads) /\ remote' \subseteq Downloads /\ direct' \subseteq Downloads
  BY <1>1, <1>2, Elsewhere
<1>4. DownloadTypes'
  BY <1>0, <1>1, <1>3 DEF DownloadTypes, Download!Mismatch
<1>5. Kept'
  BY <1>0, <1>1, <1>3 DEF Kept, DownloadTypes, Download!Mismatch, s
<1>6. (Download!CopiesAreOwned)' /\ (Download!StreamedIsThere)'
  BY <1>0, <1>1, <1>3 DEF Download!CopiesAreOwned, Download!StreamedIsThere, DownloadTypes, Download!Mismatch, Kept, s
<1> QED
  BY <1>3, <1>4, <1>5, <1>6 DEF DownloadInv, Download!DownloadsAgree

\* Who takes it has it to himself.
LEMMA TakeKeeps ==
  ASSUME DownloadInv, NEW d \in Downloads, Download!Take(d) PROVE DownloadInv'
<1> DEFINE s == "streaming"
<1>0. DownloadTypes /\ Kept /\ Download!CopiesAreOwned /\ Download!StreamedIsThere
  BY DEF DownloadInv, Download!DownloadsAgree
<1>1. /\ download[d] = "ready" /\ download' = [download EXCEPT ![d] = s]
      /\ UNCHANGED <<active, waiters, closing, remote, direct>>
  BY DEF Download!Take, Download!At, Download!Fixed
<1>2. s \in DownloadStates \ {"loading", "waiting"} /\ download[d] \notin {"loading", "waiting"}
  BY <1>1 DEF DownloadStates
<1> HIDE DEF s
<1>3. /\ download' \in [Downloads -> DownloadStates] /\ download'[d] = s
      /\ \A e \in Downloads \ {d} : download'[e] = download[e]
      /\ (WaitOnce)' /\ (Download!TransfersBounded)'
      /\ active' \in Nat /\ waiters' \in Seq(Downloads) /\ remote' \subseteq Downloads /\ direct' \subseteq Downloads
  BY <1>1, <1>2, Elsewhere
<1>4. DownloadTypes'
  BY <1>0, <1>1, <1>3 DEF DownloadTypes, Download!Take
<1>5. Kept'
  BY <1>0, <1>1, <1>3 DEF Kept, DownloadTypes, Download!Take, s
<1>6. (Download!CopiesAreOwned)' /\ (Download!StreamedIsThere)'
  BY <1>0, <1>1, <1>3 DEF Download!CopiesAreOwned, Download!StreamedIsThere, DownloadTypes, Download!Take, Kept, s
<1> QED
  BY <1>3, <1>4, <1>5, <1>6 DEF DownloadInv, Download!DownloadsAgree

\* The copy goes with the stream.
LEMMA StreamClosesKeeps ==
  ASSUME DownloadInv, NEW d \in Downloads, Download!StreamCloses(d) PROVE DownloadInv'
<1> DEFINE s == "done"
<1>0. DownloadTypes /\ Kept /\ Download!CopiesAreOwned /\ Download!StreamedIsThere
  BY DEF DownloadInv, Download!DownloadsAgree
<1>1. /\ download[d] = "streaming" /\ download' = [download EXCEPT ![d] = s]
      /\ UNCHANGED <<active, waiters, closing, remote, direct>>
  BY DEF Download!StreamCloses, Download!At, Download!Fixed
<1>2. s \in DownloadStates \ {"loading", "waiting"} /\ download[d] \notin {"loading", "waiting"}
  BY <1>1 DEF DownloadStates
<1> HIDE DEF s
<1>3. /\ download' \in [Downloads -> DownloadStates] /\ download'[d] = s
      /\ \A e \in Downloads \ {d} : download'[e] = download[e]
      /\ (WaitOnce)' /\ (Download!TransfersBounded)'
      /\ active' \in Nat /\ waiters' \in Seq(Downloads) /\ remote' \subseteq Downloads /\ direct' \subseteq Downloads
  BY <1>1, <1>2, Elsewhere
<1>4. DownloadTypes'
  BY <1>0, <1>1, <1>3 DEF DownloadTypes, Download!StreamCloses
<1>5. Kept'
  BY <1>0, <1>1, <1>3 DEF Kept, DownloadTypes, Download!StreamCloses, s
<1>6. (Download!CopiesAreOwned)' /\ (Download!StreamedIsThere)'
  BY <1>0, <1>1, <1>3 DEF Download!CopiesAreOwned, Download!StreamedIsThere, DownloadTypes, Download!StreamCloses, Kept, s
<1> QED
  BY <1>3, <1>4, <1>5, <1>6 DEF DownloadInv, Download!DownloadsAgree

\* A timer that runs out removes what nobody has taken.
LEMMA ExpireKeeps ==
  ASSUME DownloadInv, NEW d \in Downloads, Download!Expire(d) PROVE DownloadInv'
<1> DEFINE s == "expired"
<1>0. DownloadTypes /\ Kept /\ Download!CopiesAreOwned /\ Download!StreamedIsThere
  BY DEF DownloadInv, Download!DownloadsAgree
<1>1. /\ d \in timers /\ timers' = timers \ {d} /\ UNCHANGED <<active, waiters, closing, remote, direct>>
      /\ IF d \in prepared THEN prepared' = prepared \ {d} /\ temps' = temps \ {d} ELSE UNCHANGED <<prepared, temps>>
  BY DEF Download!Expire, Download!Fixed
<1>2. download[d] = "ready"
  BY <1>0, <1>1 DEF Kept
<1>3. download' = [download EXCEPT ![d] = s]
  <2>1. download' = [download EXCEPT ![d] = IF download[d] = "ready" /\ d \notin prepared' THEN "expired" ELSE download[d]]
    BY DEF Download!Expire, Download!At
  <2>2. d \notin prepared'
    BY <1>1
  <2> QED
    BY <1>2, <2>1, <2>2
<1>4. s \in DownloadStates \ {"loading", "waiting"} /\ download[d] \notin {"loading", "waiting"}
  BY <1>2 DEF DownloadStates
<1> HIDE DEF s
<1>5. /\ download' \in [Downloads -> DownloadStates] /\ download'[d] = s
      /\ \A e \in Downloads \ {d} : download'[e] = download[e]
      /\ (WaitOnce)' /\ (Download!TransfersBounded)'
      /\ active' \in Nat /\ waiters' \in Seq(Downloads) /\ remote' \subseteq Downloads /\ direct' \subseteq Downloads
  BY <1>1, <1>3, <1>4, Elsewhere
<1>6. DownloadTypes'
  BY <1>0, <1>1, <1>5 DEF DownloadTypes
<1>7. Kept'
  BY <1>0, <1>1, <1>2, <1>5 DEF Kept, DownloadTypes, s
<1>8. (Download!CopiesAreOwned)' /\ (Download!StreamedIsThere)'
  BY <1>0, <1>1, <1>2, <1>5 DEF Download!CopiesAreOwned, Download!StreamedIsThere, DownloadTypes, s
<1> QED
  BY <1>5, <1>6, <1>7, <1>8 DEF DownloadInv, Download!DownloadsAgree

\* A shutdown forgets the preparations, and stops their timers.
LEMMA ShutdownKeeps ==
  ASSUME DownloadInv, Download!Shutdown PROVE DownloadInv'
  BY DEF DownloadInv, DownloadTypes, WaitOnce, Kept, Download!DownloadsAgree, Download!CopiesAreOwned,
         Download!StreamedIsThere, Download!TransfersBounded, Download!Shutdown, Download!Fixed

\* At a start nothing is asked for.
LEMMA DownloadStart == Download!DownloadsInit => DownloadInv
<1> SUFFICES ASSUME Download!DownloadsInit PROVE DownloadInv
  OBVIOUS
<1>0. waiters = <<>> /\ waiters \in Seq(Downloads)
  BY DEF Download!DownloadsInit
<1>1. DownloadTypes /\ waiters = <<>> /\ DOMAIN waiters = {}
  <2>1. DOMAIN waiters = {}
    BY <1>0
  <2> QED
    BY <1>0, <2>1 DEF DownloadTypes, Download!DownloadsInit, DownloadStates
<1>2. WaitOnce /\ Kept /\ Download!CopiesAreOwned /\ Download!StreamedIsThere
  BY <1>1 DEF Download!DownloadsInit, WaitOnce, Kept, Download!CopiesAreOwned, Download!StreamedIsThere
<1>3. LoadingIn(download) = {} /\ {d \in Downloads : download[d] = "waiting"} = {} /\ Waiting(waiters) = {}
  BY <1>1 DEF Download!DownloadsInit, LoadingIn, Waiting
<1>4. Cardinality({}) = 0
  BY FS_EmptySet
<1>5. Download!TransfersBounded
  <2>1. active = 0 /\ 0 <= Slots
    BY ArtifactsAssumption DEF Download!DownloadsInit
  <2>2. Bounded(download, waiters, active)
    BY <1>1, <1>3, <1>4, <2>1 DEF Bounded
  <2> QED
    BY <2>2, BoundedBy
<1> QED
  BY <1>1, <1>2, <1>5 DEF DownloadInv, Download!DownloadsAgree

\* No other side touches them.
LEMMA DownloadStep == DownloadInv /\ [ArtifactsNext]_<<rest, people, side>> => DownloadInv'
<1> SUFFICES ASSUME DownloadInv, [ArtifactsNext]_<<rest, people, side>> PROVE DownloadInv'
  OBVIOUS
<1>1. ASSUME UNCHANGED downloads PROVE DownloadInv'
  BY <1>1 DEF downloads, DownloadInv, DownloadTypes, WaitOnce, Kept, Download!DownloadsAgree, Download!CopiesAreOwned,
              Download!StreamedIsThere, Download!TransfersBounded
<1>2. ASSUME Download!DownloadsNext PROVE DownloadInv'
  <2>1. ASSUME NEW d \in Downloads, Download!Loaded(d) \/ Download!LoadFails(d) PROVE DownloadInv'
    <3>1. ASSUME Download!Loaded(d) PROVE DownloadInv'
      BY <3>1, ReleaseKeeps DEF Download!Loaded, Download!Fixed
    <3>2. ASSUME Download!LoadFails(d) PROVE DownloadInv'
      BY <3>2, ReleaseKeeps DEF Download!LoadFails, Download!Fixed
    <3> QED
      BY <2>1, <3>1, <3>2
  <2> QED
    BY <1>2, <2>1, AskKeeps, VerifiedKeeps, MismatchKeeps, ExpireKeeps, TakeKeeps, StreamClosesKeeps, ShutdownKeeps
       DEF Download!DownloadsNext
<1>3. UNCHANGED downloads \/ Download!DownloadsNext
  BY DEF ArtifactsNext, rest
<1> QED
  BY <1>1, <1>2, <1>3

\* Copies below data/tmp are owned, what is streamed is there, and transfers
\* are as many as are counted, at most the slots, with nobody waiting beside
\* a free one (backup/backup.service.ts, storage/storage.service.ts).
THEOREM DownloadsCorrect == ArtifactsSpec => []DownloadsAgree
<1>1. ArtifactsInit => DownloadInv
  BY DownloadStart DEF ArtifactsInit
<1>2. DownloadInv => DownloadsAgree
  BY DEF DownloadInv, DownloadsAgree
<1> QED
  BY <1>1, <1>2, DownloadStep, PTL DEF ArtifactsSpec

-----------------------------------------------------------------------------
(* Restores *)

RestoreKinds == {"overwrite", "rehearsal", "new", "test"}
RestoreStages == {"fetching", "archive", "names", "creating", "restoring", "verifying", "cleanup", "done"}
Blank == [kind |-> "none", stage |-> "none"]
Holders == {"absent", "theirs", "empty"} \cup Restores

Rows ==
  [kind : RestoreKinds, confirmed : BOOLEAN, target : [Sources -> Restoring!Names], stage : RestoreStages,
   left : SUBSET [dbs : SUBSET Sources, objects : BOOLEAN], made : SUBSET Restoring!Names, touched : SUBSET Restoring!Names]

Goal(a, x) == {x.target[d] : d \in a.dbs}

\* A restore by itself: who has not confirmed loads nothing before the databases
\* are made, and a damaged artifact gets no further than its check.
RowOK(a, x) ==
  /\ x \in Rows
  /\ x.kind = "overwrite" => x.confirmed
  /\ x.kind \in {"rehearsal", "test"} => ~x.confirmed
  /\ x.kind \in {"new", "test"} => \E d \in a.dbs : a.dbs = {d}
  /\ x.confirmed => x.made = {}
  /\ ~x.confirmed /\ x.stage = "restoring" => Goal(a, x) \subseteq x.made
  /\ ~x.confirmed /\ x.stage = "archive" /\ x.kind # "rehearsal" => Goal(a, x) \subseteq x.made
  /\ ~x.confirmed /\ (x.kind = "rehearsal" \/ ~a.zip \/ a.layout = "database") => x.touched = {}
  /\ a.damage = "bytes" => x.stage \in {"fetching", "cleanup", "done"} /\ x.made = {} /\ x.touched = {}
  /\ a.damage = "members" /\ x.kind = "rehearsal" =>
       x.stage \in {"fetching", "archive", "cleanup", "done"} /\ x.made = {} /\ x.touched = {}

Working(x) == x # Blank /\ x.stage # "done"

\* What a restore has made is there, and nobody else's, until it ends; and no two
\* restores have made the same.
RestoreInv ==
  /\ artifact \in Restoring!Artifacts
  /\ databases \in [Restoring!Names -> Holders]
  /\ restore \in [Restores -> {Blank} \cup Rows]
  /\ \A r \in Restores : restore[r] = Blank \/ RowOK(artifact, restore[r])
  /\ \A r \in Restores : Working(restore[r]) => \A n \in restore[r].made : databases[n] \notin {"absent", "theirs"}
  /\ \A q, r \in Restores :
       q # r /\ Working(restore[q]) /\ Working(restore[r]) => restore[q].made \cap restore[r].made = {}

\* A row is not the blank one.
LEMMA RowNotBlank == ASSUME NEW x \in Rows PROVE x # Blank
<1>1. x.kind \in RestoreKinds
  BY DEF Rows
<1>2. Blank.kind = "none"
  BY DEF Blank
<1> QED
  BY <1>1, <1>2 DEF RestoreKinds

\* One restore goes on, and the databases change as it may change them: what
\* others have made stays theirs.
LEMMA RestoreGoes ==
  ASSUME RestoreInv, UNCHANGED artifact, NEW r \in Restores, NEW x \in Rows, RowOK(artifact, x),
         restore' = [restore EXCEPT ![r] = x],
         databases' \in [Restoring!Names -> Holders],
         x.stage # "done" => \A n \in x.made : databases'[n] \notin {"absent", "theirs"},
         \A q \in Restores \ {r} : Working(restore[q]) =>
            /\ \A n \in restore[q].made : databases'[n] \notin {"absent", "theirs"}
            /\ x.stage # "done" => restore[q].made \cap x.made = {}
  PROVE  RestoreInv'
<1>1. /\ restore' \in [Restores -> {Blank} \cup Rows] /\ restore'[r] = x
      /\ \A q \in Restores \ {r} : restore'[q] = restore[q]
  BY DEF RestoreInv
<1>4. artifact' \in Restoring!Artifacts /\ Restoring!Artifacts' = Restoring!Artifacts
  BY DEF RestoreInv, Restoring!Artifacts
<1>5. Restoring!Names' = Restoring!Names
  BY DEF Restoring!Names
<1>6. Working(x) <=> x.stage # "done"
  BY RowNotBlank DEF Working
<1>7. \A q \in Restores : restore'[q] = Blank \/ RowOK(artifact', restore'[q])
  BY <1>1 DEF RestoreInv
<1>8. \A q \in Restores : Working(restore'[q]) => \A n \in restore'[q].made : databases'[n] \notin {"absent", "theirs"}
  BY <1>1, <1>6
<1>9. \A p, q \in Restores :
        p # q /\ Working(restore'[p]) /\ Working(restore'[q]) => restore'[p].made \cap restore'[q].made = {}
  <2> SUFFICES ASSUME NEW p \in Restores, NEW q \in Restores, p # q, Working(restore'[p]), Working(restore'[q])
               PROVE  restore'[p].made \cap restore'[q].made = {}
    OBVIOUS
  <2>1. CASE p = r
    BY <1>1, <1>6, <2>1
  <2>2. CASE q = r
    BY <1>1, <1>6, <2>2
  <2>3. CASE p # r /\ q # r
    BY <1>1, <2>3 DEF RestoreInv
  <2> QED
    BY <2>1, <2>2, <2>3
<1>10. RestoreInv' <=>
        /\ artifact' \in Restoring!Artifacts' /\ databases' \in [Restoring!Names' -> Holders]
        /\ restore' \in [Restores -> {Blank} \cup Rows]
        /\ \A q \in Restores : restore'[q] = Blank \/ RowOK(artifact', restore'[q])
        /\ \A q \in Restores : Working(restore'[q]) => \A n \in restore'[q].made : databases'[n] \notin {"absent", "theirs"}
        /\ \A p, q \in Restores :
             p # q /\ Working(restore'[p]) /\ Working(restore'[q]) => restore'[p].made \cap restore'[q].made = {}
  BY DEF RestoreInv, Working
<1> QED
  BY <1>1, <1>4, <1>5, <1>7, <1>8, <1>9, <1>10

\* A restore that has begun, and its parts.
LEMMA RestoreParts ==
  ASSUME RestoreInv, NEW r \in Restores, restore[r].stage # "none"
  PROVE  restore[r] \in Rows /\ RowOK(artifact, restore[r]) /\ restore[r].stage \in RestoreStages
<1>1. restore[r] # Blank
  BY DEF Blank
<1> QED
  BY <1>1 DEF RestoreInv, Rows

\* Another stage, with nothing else: what the stage is allowed to be is asked of
\* the row.
LEMMA StageKeeps ==
  ASSUME RestoreInv, UNCHANGED <<artifact, databases>>, NEW r \in Restores, restore[r].stage \notin {"none", "done"},
         NEW s \in RestoreStages, Restoring!Go(r, s), RowOK(artifact, [restore[r] EXCEPT !.stage = s])
  PROVE  RestoreInv'
<1> DEFINE x == [restore[r] EXCEPT !.stage = s]
<1>1. restore[r] \in Rows /\ RowOK(artifact, restore[r])
  BY RestoreParts
<1>2. x \in Rows /\ x.made = restore[r].made /\ x.stage = s
  BY <1>1 DEF Rows
<1>3. restore' = [restore EXCEPT ![r] = x]
  BY DEF Restoring!Go, Restoring!Change
<1>4. restore[r] # Blank /\ Working(restore[r])
  BY <1>1, RowNotBlank DEF Working
<1>5. databases' = databases
  OBVIOUS
<1>6. RowOK(artifact, x)
  OBVIOUS
<1> HIDE DEF x
<1>7. \A n \in x.made : databases'[n] \notin {"absent", "theirs"}
  BY <1>2, <1>4, <1>5 DEF RestoreInv
<1>8. \A q \in Restores \ {r} : Working(restore[q]) =>
            /\ \A n \in restore[q].made : databases'[n] \notin {"absent", "theirs"}
            /\ restore[q].made \cap x.made = {}
  BY <1>2, <1>4, <1>5 DEF RestoreInv
<1>9. databases' \in [Restoring!Names -> Holders]
  BY <1>5 DEF RestoreInv
<1> QED
  BY <1>2, <1>3, <1>6, <1>7, <1>8, <1>9, RestoreGoes

\* Which stages a row may go on to.
LEMMA StageAllowed ==
  ASSUME NEW x, RowOK(artifact, x), NEW s \in RestoreStages,
         s = "restoring" /\ ~x.confirmed => Goal(artifact, x) \subseteq x.made,
         s = "archive" /\ ~x.confirmed => x.kind = "rehearsal" \/ Goal(artifact, x) \subseteq x.made,
         artifact.damage = "bytes" => s \in {"fetching", "cleanup", "done"},
         artifact.damage = "members" /\ x.kind = "rehearsal" => s \in {"fetching", "archive", "cleanup", "done"}
  PROVE  RowOK(artifact, [x EXCEPT !.stage = s])
<1> DEFINE y == [x EXCEPT !.stage = s]
<1>1. /\ y \in Rows /\ y.stage = s /\ y.kind = x.kind /\ y.confirmed = x.confirmed /\ y.made = x.made
      /\ y.touched = x.touched /\ y.target = x.target
  BY DEF RowOK, Rows
<1>2. Goal(artifact, y) = Goal(artifact, x)
  BY <1>1 DEF Goal
<1> HIDE DEF y
<1>3. RowOK(artifact, y)
  BY <1>1, <1>2 DEF RowOK
<1> QED
  BY <1>3 DEF y

\* The members are of the databases of the artifact.
LEMMA MembersOf ==
  ASSUME RestoreInv
  PROVE  /\ Restoring!Members \in SUBSET [dbs : SUBSET Sources, objects : BOOLEAN]
         /\ \A m \in Restoring!Members : m.dbs \subseteq artifact.dbs
         /\ artifact.dbs \subseteq Sources
<1>1. artifact.dbs \in SUBSET Sources
  BY DEF RestoreInv, Restoring!Artifacts
<1>2. ASSUME NEW m \in Restoring!Members
      PROVE  \E D \in SUBSET artifact.dbs, o \in BOOLEAN : m = [dbs |-> D, objects |-> o]
  <2>1. CASE artifact.layout = "single"
    <3>1. m = [dbs |-> artifact.dbs, objects |-> FALSE]
      BY <1>2, <2>1 DEF Restoring!Members
    <3> QED
      BY <3>1, Zenon
  <2>2. CASE artifact.layout # "single"
    <3> DEFINE O == IF artifact.layout = "table" THEN BOOLEAN ELSE {FALSE}
    <3>1. Restoring!Members = {[dbs |-> {d}, objects |-> o] : d \in artifact.dbs, o \in O}
      BY <2>2, SMT DEF Restoring!Members
    <3>2. O \subseteq BOOLEAN
      BY Zenon
    <3> HIDE DEF O
    <3>3. PICK d \in artifact.dbs, o \in O : m = [dbs |-> {d}, objects |-> o]
      BY <1>2, <3>1
    <3> QED
      BY <3>2, <3>3, Zenon
  <2> QED
    BY <2>1, <2>2
<1>3. ASSUME NEW m \in Restoring!Members
      PROVE  m \in [dbs : SUBSET Sources, objects : BOOLEAN] /\ m.dbs \subseteq artifact.dbs
  <2>1. PICK D \in SUBSET artifact.dbs, o \in BOOLEAN : m = [dbs |-> D, objects |-> o]
    BY <1>2, Zenon
  <2> QED
    BY <1>1, <2>1
<1> QED
  BY <1>1, <1>3

\* What is asked for: a new name for one database only.
LEMMA BeginKeeps ==
  ASSUME RestoreInv, NEW r \in Restores, Restoring!Begin(r) PROVE RestoreInv'
<1>0. \A S : Restoring!Cardinality(S) = Cardinality(S)
  BY DEF Cardinality, Restoring!Cardinality
<1>d. artifact.dbs \in SUBSET Sources
  BY DEF RestoreInv, Restoring!Artifacts
<1>f. IsFiniteSet(artifact.dbs)
  BY <1>d, ArtifactsAssumption, FS_Subset
<1>c. Cardinality(artifact.dbs) = 1 => \E d \in artifact.dbs : artifact.dbs = {d}
  BY <1>f, FS_Singleton
<1>1. ASSUME NEW k \in RestoreKinds, NEW c \in BOOLEAN, NEW t \in [Sources -> Restoring!Names], Restoring!Ask(r, k, c, t),
             k = "overwrite" => c, k \in {"rehearsal", "test"} => ~c,
             k \in {"new", "test"} => \E d \in artifact.dbs : artifact.dbs = {d}
      PROVE  RestoreInv'
  <2> DEFINE x == [kind |-> k, confirmed |-> c, target |-> t, stage |-> "fetching",
                   left |-> Restoring!Members, made |-> {}, touched |-> {}]
  <2>1. x \in Rows
    BY MembersOf DEF Rows, RestoreStages
  <2>2. RowOK(artifact, x)
    BY <1>1, <2>1 DEF RowOK
  <2>3. restore' = [restore EXCEPT ![r] = x]
    BY <1>1 DEF Restoring!Ask, Restoring!Change
  <2>4. x.made = {}
    OBVIOUS
  <2>5. UNCHANGED <<artifact, databases>>
    BY DEF Restoring!Begin
  <2> HIDE DEF x
  <2>6. \A q \in Restores \ {r} : Working(restore[q]) =>
            /\ \A n \in restore[q].made : databases'[n] \notin {"absent", "theirs"}
            /\ x.stage # "done" => restore[q].made \cap x.made = {}
    BY <2>4, <2>5 DEF RestoreInv
  <2>7. databases' \in [Restoring!Names -> Holders]
    BY <2>5 DEF RestoreInv
  <2> QED
    BY <2>1, <2>2, <2>3, <2>4, <2>5, <2>6, <2>7, RestoreGoes
<1>2. [d \in Sources |-> d] \in [Sources -> Restoring!Names]
  BY DEF Restoring!Names
<1>3. [d \in Sources |-> <<r, d>>] \in [Sources -> Restoring!Names]
  BY DEF Restoring!Names
<1>4. \A n \in Sources \cup {Chosen} : [d \in Sources |-> n] \in [Sources -> Restoring!Names]
  BY DEF Restoring!Names
<1>5. \A d \in artifact.dbs : [e \in Sources |-> <<r, d>>] \in [Sources -> Restoring!Names]
  BY <1>d DEF Restoring!Names
<1>6. CASE Restoring!Ask(r, "overwrite", TRUE, [d \in Sources |-> d])
  BY <1>1, <1>2, <1>6 DEF RestoreKinds
<1>7. CASE Restoring!Ask(r, "rehearsal", FALSE, [d \in Sources |-> <<r, d>>])
  BY <1>1, <1>3, <1>7 DEF RestoreKinds
<1>8. ASSUME Restoring!Cardinality(artifact.dbs) = 1, NEW n \in Sources \cup {Chosen}, NEW confirmed \in BOOLEAN,
             Restoring!Ask(r, "new", confirmed, [d \in Sources |-> n])
      PROVE  RestoreInv'
  BY <1>0, <1>c, <1>1, <1>4, <1>8 DEF RestoreKinds
<1>9. ASSUME Restoring!Cardinality(artifact.dbs) = 1, NEW d \in artifact.dbs,
             Restoring!Ask(r, "test", FALSE, [e \in Sources |-> <<r, d>>])
      PROVE  RestoreInv'
  BY <1>0, <1>c, <1>1, <1>5, <1>9 DEF RestoreKinds
<1> QED
  BY <1>6, <1>7, <1>8, <1>9 DEF Restoring!Begin

\* The steps that only go on to another stage.
LEMMA GoingOn ==
  ASSUME RestoreInv, NEW r \in Restores,
         \/ Restoring!Fetch(r) \/ Restoring!CheckArchive(r) \/ Restoring!CheckNames(r) \/ Restoring!Verify(r)
         \/ restore[r].stage \notin {"none", "cleanup", "done"} /\ Restoring!Fail(r)
  PROVE  RestoreInv'
<1> DEFINE x == restore[r]
<1>0. x.stage \notin {"none", "done"} /\ UNCHANGED <<artifact, databases>>
  BY DEF Restoring!Fetch, Restoring!CheckArchive, Restoring!CheckNames, Restoring!Verify, Restoring!Fail
<1>1. RowOK(artifact, x) /\ artifact.damage \in {"none", "bytes", "members"}
  BY <1>0, RestoreParts DEF RestoreInv, Restoring!Artifacts
<1>2. ASSUME NEW s \in RestoreStages, Restoring!Go(r, s), RowOK(artifact, [x EXCEPT !.stage = s]) PROVE RestoreInv'
  BY <1>0, <1>2, StageKeeps
<1>3. ASSUME Restoring!Go(r, "cleanup") PROVE RestoreInv'
  BY <1>1, <1>2, <1>3, StageAllowed DEF RestoreStages
<1>4. CASE Restoring!Fetch(r)
  <2>1. CASE ~Restoring!HashAgrees
    BY <1>3, <1>4, <2>1 DEF Restoring!Fetch
  <2>2. CASE Restoring!HashAgrees /\ Restoring!Renames(r) /\ ~Restoring!Rehearses(r)
    BY <1>1, <1>2, <1>4, <2>2, StageAllowed DEF Restoring!Fetch, Restoring!HashAgrees, Restoring!Rehearses, RestoreStages
  <2>3. CASE Restoring!HashAgrees /\ ~(Restoring!Renames(r) /\ ~Restoring!Rehearses(r))
    <3>1. x.kind \in {"overwrite", "rehearsal"} /\ (x.kind = "rehearsal" \/ x.confirmed) /\ artifact.damage # "bytes"
      BY <1>1, <2>3 DEF Restoring!Renames, Restoring!Rehearses, Restoring!HashAgrees, RowOK
    <3>2. RowOK(artifact, [x EXCEPT !.stage = "archive"])
      BY <1>1, <3>1, StageAllowed DEF RestoreStages
    <3>3. Restoring!Go(r, "archive")
      BY <1>4, <2>3 DEF Restoring!Fetch
    <3> QED
      BY <1>2, <3>2, <3>3 DEF RestoreStages
  <2> QED
    BY <2>1, <2>2, <2>3
<1>5. CASE Restoring!CheckArchive(r)
  <2>1. CASE artifact.damage = "members"
    BY <1>3, <1>5, <2>1 DEF Restoring!CheckArchive
  <2>2. CASE artifact.damage # "members" /\ Restoring!Rehearses(r)
    <3>1. artifact.damage # "bytes"
      BY <1>1, <1>5 DEF RowOK, Restoring!CheckArchive
    <3>2. RowOK(artifact, [x EXCEPT !.stage = "names"])
      BY <1>1, <2>2, <3>1, StageAllowed DEF RestoreStages
    <3>3. Restoring!Go(r, "names")
      BY <1>5, <2>2 DEF Restoring!CheckArchive
    <3> QED
      BY <1>2, <3>2, <3>3 DEF RestoreStages
  <2>3. CASE artifact.damage # "members" /\ ~Restoring!Rehearses(r)
    <3>1. artifact.damage # "bytes" /\ (~x.confirmed => Goal(artifact, x) \subseteq x.made)
      BY <1>1, <1>5, <2>3 DEF RowOK, Restoring!CheckArchive, Restoring!Rehearses
    <3>2. RowOK(artifact, [x EXCEPT !.stage = "restoring"])
      BY <1>1, <2>3, <3>1, StageAllowed DEF RestoreStages
    <3>3. Restoring!Go(r, "restoring")
      BY <1>5, <2>3 DEF Restoring!CheckArchive
    <3> QED
      BY <1>2, <3>2, <3>3 DEF RestoreStages
  <2> QED
    BY <2>1, <2>2, <2>3
<1>6. CASE Restoring!CheckNames(r)
  <2>1. CASE \E n \in Restoring!Scratch(r) : Restoring!OnServer(n)
    BY <1>3, <1>6, <2>1 DEF Restoring!CheckNames
  <2>2. CASE ~\E n \in Restoring!Scratch(r) : Restoring!OnServer(n)
    <3>1. artifact.damage # "bytes" /\ (artifact.damage = "members" => x.kind # "rehearsal")
      BY <1>1, <1>6 DEF RowOK, Restoring!CheckNames
    <3>2. RowOK(artifact, [x EXCEPT !.stage = "creating"])
      BY <1>1, <3>1, StageAllowed DEF RestoreStages
    <3>3. Restoring!Go(r, "creating")
      BY <1>6, <2>2 DEF Restoring!CheckNames
    <3> QED
      BY <1>2, <3>2, <3>3 DEF RestoreStages
  <2> QED
    BY <2>1, <2>2
<1>7. CASE Restoring!Verify(r)
  BY <1>3, <1>7 DEF Restoring!Verify
<1>8. CASE Restoring!Fail(r)
  BY <1>3, <1>8 DEF Restoring!Fail
<1> QED
  BY <1>4, <1>5, <1>6, <1>7, <1>8

\* What is created was not there, if it is not confirmed; then it is nobody else's.
LEMMA CreateKeeps ==
  ASSUME RestoreInv, NEW r \in Restores, NEW n \in Restoring!Names, Restoring!Create(r, n)
  PROVE  RestoreInv'
<1> DEFINE x == restore[r]
           own == IF x.confirmed THEN {} ELSE x.made \cup {n}
           s == IF Restoring!Rehearses(r) THEN IF own = Restoring!Scratch(r) THEN "restoring" ELSE "creating" ELSE "archive"
           y == [x EXCEPT !.made = own, !.stage = s]
<1>0. x.stage = "creating" /\ n \in Restoring!Scratch(r) /\ UNCHANGED artifact
  BY DEF Restoring!Create
<1>1. RowOK(artifact, x) /\ x \in Rows
  BY <1>0, RestoreParts
<1>2. x # Blank /\ Working(x)
  BY <1>0, <1>1, RowNotBlank DEF Working
<1>3. restore' = [restore EXCEPT ![r] = y]
  BY DEF Restoring!Create, Restoring!Change
<1>4. databases' = [databases EXCEPT ![n] = IF databases[n] # "absent" THEN databases[n] ELSE "empty"]
  BY DEF Restoring!Create, Restoring!OnServer
<1>5. databases' \in [Restoring!Names -> Holders]
  BY <1>4 DEF RestoreInv, Holders
<1>6. \A m \in Restoring!Names : databases[m] \notin {"absent", "theirs"} => databases'[m] \notin {"absent", "theirs"}
  BY <1>4 DEF RestoreInv
<1>7. ~x.confirmed => databases[n] = "absent" /\ databases'[n] = "empty"
  BY <1>4 DEF RestoreInv, Restoring!Create, Restoring!MayCreate, Restoring!OnServer
<1>8. own \in SUBSET Restoring!Names /\ s \in {"restoring", "creating", "archive"}
  BY <1>1 DEF Rows
<1>9. Restoring!Scratch(r) = Goal(artifact, x)
  BY DEF Restoring!Scratch, Goal
<1>10. ~x.confirmed => Goal(artifact, x) # {}
  BY <1>0, <1>9
<1>11. x.kind \in {"new", "test"} /\ ~x.confirmed => Goal(artifact, x) \subseteq own
  BY <1>0, <1>1, <1>9 DEF RowOK, Goal
<1>12. Restoring!Rehearses(r) <=> x.kind = "rehearsal"
  BY DEF Restoring!Rehearses
<1>13. /\ s = "restoring" => x.kind = "rehearsal" /\ own = Goal(artifact, x)
       /\ s = "creating" => x.kind = "rehearsal"
       /\ s = "archive" => x.kind # "rehearsal"
  BY <1>9, <1>12
<1>14. own = IF x.confirmed THEN {} ELSE x.made \cup {n}
  OBVIOUS
<1> HIDE DEF own, s, x
<1>15. /\ y \in Rows /\ y.stage = s /\ y.kind = x.kind /\ y.confirmed = x.confirmed /\ y.made = own
       /\ y.touched = x.touched /\ y.target = x.target
  BY <1>1, <1>8 DEF Rows, RestoreStages
<1>16. Goal(artifact, y) = Goal(artifact, x)
  BY <1>15 DEF Goal
<1> HIDE DEF y
<1>17. x.kind \in RestoreKinds
  BY <1>1 DEF Rows
<1>18. artifact.damage # "bytes" /\ (artifact.damage = "members" => x.kind # "rehearsal")
  BY <1>0, <1>1 DEF RowOK
<1>19. RowOK(artifact, y)
  BY <1>1, <1>8, <1>11, <1>13, <1>14, <1>15, <1>16, <1>17, <1>18 DEF RowOK, RestoreKinds
<1>20. \A m \in y.made : databases'[m] \notin {"absent", "theirs"}
  <2> SUFFICES ASSUME NEW m \in y.made PROVE databases'[m] \notin {"absent", "theirs"}
    OBVIOUS
  <2>1. ~x.confirmed /\ m \in x.made \cup {n}
    BY <1>14, <1>15
  <2>2. CASE m = n
    BY <1>7, <2>1, <2>2
  <2>3. CASE m \in x.made
    <3>1. databases[m] \notin {"absent", "theirs"} /\ m \in Restoring!Names
      BY <1>1, <1>2, <2>3 DEF RestoreInv, Rows, x
    <3> QED
      BY <1>6, <3>1
  <2> QED
    BY <2>1, <2>2, <2>3
<1>21. ASSUME NEW q \in Restores \ {r}, Working(restore[q])
       PROVE  /\ \A m \in restore[q].made : databases'[m] \notin {"absent", "theirs"}
              /\ restore[q].made \cap y.made = {}
  <2>1. restore[q].made \in SUBSET Restoring!Names
    BY <1>21 DEF RestoreInv, Working, Rows
  <2>2. \A m \in restore[q].made : databases[m] \notin {"absent", "theirs"}
    BY <1>21 DEF RestoreInv
  <2>3. restore[q].made \cap x.made = {}
    BY <1>2, <1>21 DEF RestoreInv, x
  <2>4. restore[q].made \cap y.made = {}
    BY <1>7, <1>14, <1>15, <2>2, <2>3
  <2> QED
    BY <1>6, <2>1, <2>2, <2>4
<1> QED
  BY <1>0, <1>3, <1>5, <1>15, <1>19, <1>20, <1>21, RestoreGoes

\* What a member writes to: the names of the restore, where it is rewritten.
LEMMA WritesToGoal ==
  ASSUME RestoreInv, NEW r \in Restores, NEW m \in Restoring!Members
  PROVE  Restoring!Rewritten(r) => Restoring!Written(r, m) \subseteq Goal(artifact, restore[r])
  BY MembersOf DEF Restoring!Written, Goal

\* An unconfirmed restore that rewrites loads into what it has made.
LEMMA LoadKeeps ==
  ASSUME RestoreInv, NEW r \in Restores, NEW m \in Restoring!Members, Restoring!Load(r, m)
  PROVE  RestoreInv'
<1> DEFINE x == restore[r]
           w == Restoring!Written(r, m)
           more == {n \in w : n \notin x.made \/ databases[n] = "theirs"}
<1>0. x.stage = "restoring" /\ UNCHANGED artifact
  BY DEF Restoring!Load
<1>1. RowOK(artifact, x) /\ x \in Rows
  BY <1>0, RestoreParts
<1>2. x # Blank /\ Working(x)
  BY <1>0, <1>1, RowNotBlank DEF Working
<1>3. databases' = [n \in Restoring!Names |-> IF n \in w THEN r ELSE databases[n]]
  BY DEF Restoring!Load
<1>4. r \notin {"absent", "theirs"}
  BY ArtifactsAssumption
<1>5. databases' \in [Restoring!Names -> Holders]
  BY <1>3 DEF RestoreInv, Holders
<1>6. \A n \in Restoring!Names : databases[n] \notin {"absent", "theirs"} => databases'[n] \notin {"absent", "theirs"}
  BY <1>3, <1>4
<1>7. PICK s \in {"cleanup", IF x.left = {m} THEN "verifying" ELSE "restoring"} :
        restore' = [restore EXCEPT ![r] = [x EXCEPT !.left = x.left \ {m}, !.stage = s, !.touched = x.touched \cup more]]
  BY DEF Restoring!Load, Restoring!Change
<1>8. s \in {"cleanup", "verifying", "restoring"}
  BY <1>7
<1>9. w \subseteq Restoring!Names
  <2>1. m.dbs \subseteq Sources /\ x.target \in [Sources -> Restoring!Names]
    BY <1>1, MembersOf DEF Rows
  <2> QED
    BY <2>1 DEF Restoring!Written, Restoring!Names
<1>10. ~x.confirmed /\ Restoring!Rewritten(r) => more = {}
  <2> SUFFICES ASSUME ~x.confirmed, Restoring!Rewritten(r), NEW n \in w PROVE n \in x.made /\ databases[n] # "theirs"
    OBVIOUS
  <2>1. n \in x.made
    BY <1>0, <1>1, WritesToGoal DEF RowOK
  <2> QED
    BY <1>2, <2>1 DEF RestoreInv
<1>11. ~x.confirmed /\ (x.kind = "rehearsal" \/ ~artifact.zip \/ artifact.layout = "database") => Restoring!Rewritten(r)
  BY <1>1 DEF RowOK, Rows, RestoreKinds, Restoring!Rewritten, Restoring!Rehearses, Restoring!Renames
<1> DEFINE y == [x EXCEPT !.left = x.left \ {m}, !.stage = s, !.touched = x.touched \cup more]
<1>12. more \subseteq Restoring!Names
  BY <1>9
<1> HIDE DEF x, w, more
<1>13. /\ y \in Rows /\ y.stage = s /\ y.kind = x.kind /\ y.confirmed = x.confirmed /\ y.made = x.made
       /\ y.touched = x.touched \cup more /\ y.target = x.target
  BY <1>1, <1>8, <1>12 DEF Rows, RestoreStages
<1>14. Goal(artifact, y) = Goal(artifact, x)
  BY <1>13 DEF Goal
<1>15. restore' = [restore EXCEPT ![r] = y]
  BY <1>7
<1> HIDE DEF y
<1>16. artifact.damage # "bytes" /\ (artifact.damage = "members" => x.kind # "rehearsal")
  BY <1>0, <1>1 DEF RowOK
<1>17. RowOK(artifact, y)
  BY <1>0, <1>1, <1>8, <1>10, <1>11, <1>13, <1>14, <1>16 DEF RowOK
<1>18. \A n \in y.made : databases'[n] \notin {"absent", "theirs"}
  <2>1. x.made \subseteq Restoring!Names
    BY <1>1 DEF Rows
  <2>2. \A n \in x.made : databases[n] \notin {"absent", "theirs"}
    BY <1>2 DEF RestoreInv, x
  <2> QED
    BY <1>6, <1>13, <2>1, <2>2
<1>19. ASSUME NEW q \in Restores \ {r}, Working(restore[q])
       PROVE  /\ \A n \in restore[q].made : databases'[n] \notin {"absent", "theirs"}
              /\ restore[q].made \cap y.made = {}
  <2>1. restore[q].made \in SUBSET Restoring!Names
    BY <1>19 DEF RestoreInv, Working, Rows
  <2>2. \A n \in restore[q].made : databases[n] \notin {"absent", "theirs"}
    BY <1>19 DEF RestoreInv
  <2>3. restore[q].made \cap y.made = {}
    BY <1>2, <1>13, <1>19 DEF RestoreInv, x
  <2> QED
    BY <1>6, <2>1, <2>2, <2>3
<1> QED
  BY <1>0, <1>5, <1>13, <1>15, <1>17, <1>18, <1>19, RestoreGoes

\* What is dropped was made by the one that drops.
LEMMA CleanKeeps ==
  ASSUME RestoreInv, NEW r \in Restores, Restoring!Clean(r)
  PROVE  RestoreInv'
<1> DEFINE x == restore[r]
           y == [x EXCEPT !.stage = "done"]
<1>0. x.stage = "cleanup" /\ UNCHANGED artifact
  BY DEF Restoring!Clean
<1>1. RowOK(artifact, x) /\ x \in Rows
  BY <1>0, RestoreParts
<1>2. x # Blank /\ Working(x)
  BY <1>0, <1>1, RowNotBlank DEF Working
<1>3. restore' = [restore EXCEPT ![r] = y]
  BY DEF Restoring!Clean, Restoring!Go, Restoring!Change
<1>4. RowOK(artifact, y)
  BY <1>1, StageAllowed DEF RestoreStages
<1>5. y \in Rows /\ y.stage = "done"
  BY <1>1 DEF Rows, RestoreStages
<1>6. \/ databases' = databases
      \/ databases' = [n \in Restoring!Names |-> IF n \in x.made THEN "absent" ELSE databases[n]]
  BY DEF Restoring!Clean
<1>7. databases' \in [Restoring!Names -> Holders]
  BY <1>6 DEF RestoreInv, Holders
<1> HIDE DEF y
<1>8. ASSUME NEW q \in Restores \ {r}, Working(restore[q]), NEW n \in restore[q].made
      PROVE  databases'[n] \notin {"absent", "theirs"}
  <2>1. n \in Restoring!Names /\ databases[n] \notin {"absent", "theirs"}
    BY <1>8 DEF RestoreInv, Working, Rows
  <2>2. n \notin x.made
    BY <1>2, <1>8 DEF RestoreInv
  <2> QED
    BY <1>6, <2>1, <2>2
<1> QED
  BY <1>0, <1>3, <1>4, <1>5, <1>7, <1>8, RestoreGoes

\* What others create was not there, so nobody has made it.
LEMMA AppearKeeps ==
  ASSUME RestoreInv, NEW n \in Restoring!Names, Restoring!Appear(n)
  PROVE  RestoreInv'
<1>1. UNCHANGED <<artifact, restore>> /\ databases[n] = "absent" /\ databases' = [databases EXCEPT ![n] = "theirs"]
  BY DEF Restoring!Appear, Restoring!OnServer
<1>2. databases' \in [Restoring!Names -> Holders]
  BY <1>1 DEF RestoreInv, Holders
<1>3. ASSUME NEW r \in Restores, Working(restore[r]), NEW m \in restore[r].made
      PROVE  databases'[m] \notin {"absent", "theirs"}
  <2>1. m \in Restoring!Names /\ databases[m] \notin {"absent", "theirs"}
    BY <1>3 DEF RestoreInv, Working, Rows
  <2> QED
    BY <1>1, <2>1 DEF RestoreInv
<1> QED
  BY <1>1, <1>2, <1>3 DEF RestoreInv, Restoring!Artifacts, Restoring!Names

\* No other side touches them.
LEMMA RestoreStep == RestoreInv /\ [ArtifactsNext]_<<rest, people, side>> => RestoreInv'
<1> SUFFICES ASSUME RestoreInv, [ArtifactsNext]_<<rest, people, side>> PROVE RestoreInv'
  OBVIOUS
<1>1. ASSUME UNCHANGED restores PROVE RestoreInv'
  <2>1. artifact' = artifact /\ restore' = restore /\ databases' = databases
    BY <1>1 DEF restores
  <2> QED
    BY <2>1 DEF RestoreInv, Restoring!Artifacts, Restoring!Names
<1>2. ASSUME Restoring!RestoreNext PROVE RestoreInv'
  BY <1>2, AppearKeeps, BeginKeeps, GoingOn, CleanKeeps, CreateKeeps, LoadKeeps DEF Restoring!RestoreNext
<1>3. UNCHANGED restores \/ Restoring!RestoreNext
  BY DEF ArtifactsNext, rest
<1> QED
  BY <1>1, <1>2, <1>3

\* At a start nobody has asked.
LEMMA RestoreStart == Restoring!RestoreInit => RestoreInv
<1> SUFFICES ASSUME Restoring!RestoreInit PROVE RestoreInv
  OBVIOUS
<1>1. artifact \in Restoring!Artifacts /\ restore = [r \in Restores |-> Blank]
  BY DEF Restoring!RestoreInit, Blank
<1>2. databases \in [Restoring!Names -> Holders]
  BY DEF Restoring!RestoreInit, Holders
<1> QED
  BY <1>1, <1>2 DEF RestoreInv, Working

\* A restore that is not confirmed, and that rewrites the names of what it loads,
\* writes to nothing but what it has created; and a damaged artifact reaches no
\* database at all (backup/backup.service.ts).
THEOREM RestoresIsolated == ArtifactsSpec => []RestoreIsolated
<1>1. ArtifactsInit => RestoreInv
  BY RestoreStart DEF ArtifactsInit
<1>2. RestoreInv => RestoreIsolated
  <2> SUFFICES ASSUME RestoreInv, NEW r \in Restores, restore[r].kind # "none"
               PROVE  /\ ~restore[r].confirmed /\ Restoring!Rewritten(r) => restore[r].touched = {}
                      /\ artifact.damage = "bytes" \/ (artifact.damage = "members" /\ Restoring!Rehearses(r)) =>
                           restore[r].made = {} /\ restore[r].touched = {}
    BY DEF RestoreIsolated, Restoring!RestoreIsolated, Restoring!Isolated, Restoring!DamagedNeverRestored, Restoring!Begun
  <2>1. RowOK(artifact, restore[r])
    BY DEF RestoreInv, Blank
  <2> QED
    BY <2>1 DEF RowOK, Restoring!Rewritten, Restoring!Rehearses
<1> QED
  BY <1>1, <1>2, RestoreStep, PTL DEF ArtifactsSpec

-----------------------------------------------------------------------------
(* Captures of binary logs *)

Artifacted ==
  [log : Pitr!Logs, events : 0..MaxEvents, target : Targets, batch : Nat, status : {"pending", "captured", "failed"}]

\* The capture under way, as far as it is.
Listing == [stage : {"listing"}, target : Targets, base : Nat]
Dumping == [stage : {"dumping"}, target : Targets, base : Nat, upto : Pitr!Coordinate, logs : SUBSET Pitr!Logs]
Uploading ==
  [stage : {"uploading"}, target : Targets, base : Nat, upto : Pitr!Coordinate, logs : SUBSET Pitr!Logs,
   copied : [Pitr!Logs -> 0..MaxEvents]]

\* A baseline that is being made still has its place, and none begins after the newest log.
BaselinesOK ==
  /\ dumping # NoBaseline => Pitr!Newest < MaxCaptures /\ dumping.log <= last
  /\ \A b \in DOMAIN baselines : baselines[b].log <= last

\* The batch under way asks for the newest log, and what it has stored is all
\* pending and what was copied.
BatchOK ==
  /\ capture \in {Pitr!Idle} \cup Listing \cup Dumping \cup Uploading
  /\ capture.stage # "none" => capture.base <= Pitr!Newest
  /\ capture.stage \in {"dumping", "uploading"} => capture.base # 0
  /\ \A a \in artifacts : a.batch <= batch
  /\ capture.stage \in {"listing", "dumping"} => \A a \in artifacts : a.batch < batch
  /\ capture.stage = "dumping" => capture.upto.log \in capture.logs /\ size[capture.upto.log] >= capture.upto.pos
  /\ capture.stage = "uploading" =>
       /\ capture.copied[capture.upto.log] >= capture.upto.pos
       /\ capture.upto.log \in capture.logs \/ \E a \in artifacts : a.batch = batch /\ a.log = capture.upto.log
       /\ \A a \in artifacts : a.batch = batch =>
            a.status = "pending" /\ a.target = capture.target /\ a.events = capture.copied[a.log]

\* The newest batch that holds the last log of a continuous coverage holds it up to the time.
LatestReaches(t, upto) ==
  \E k \in Nat :
    /\ \E a \in Pitr!Stored(t) : a.log = upto.log /\ a.batch = k
    /\ \A a \in Pitr!Stored(t) : a.log = upto.log => a.batch <= k /\ (a.batch = k => a.events >= upto.pos)

ClaimOK ==
  Pitr!Rehearsable =>
    /\ \A l \in Pitr!Covered : Pitr!Has(source.target, l)
    /\ LatestReaches(source.target, source.upto)

PitrInv == Pitr!PitrTypeOK /\ BaselinesOK /\ BatchOK /\ ClaimOK

\* The baselines are numbered.
LEMMA Numbered ==
  ASSUME Pitr!PitrTypeOK
  PROVE  /\ Pitr!Newest \in 0..MaxCaptures /\ baselines \in [1..Pitr!Newest -> Pitr!Coordinate]
         /\ DOMAIN baselines = 1..Pitr!Newest
<1>1. PICK b \in 0..MaxCaptures : baselines \in [1..b -> Pitr!Coordinate]
  BY DEF Pitr!PitrTypeOK
<1>2. DOMAIN baselines = 1..b /\ b \in Nat
  BY <1>1, ArtifactsAssumption
<1>3. Cardinality(1..b) = b
  <2>1. Cardinality(1..b) = IF 1 > b THEN 0 ELSE b - 1 + 1
    BY <1>2, FS_Interval
  <2> QED
    BY <1>2, <2>1
<1>4. Pitr!Newest = b
  <2>1. \A S : Pitr!Cardinality(S) = Cardinality(S)
    BY DEF Cardinality, Pitr!Cardinality
  <2> QED
    BY <1>2, <1>3, <2>1 DEF Pitr!Newest
<1> QED
  BY <1>1, <1>2, <1>4

\* What a stage of the capture tells of it.
LEMMA CaptureOf ==
  ASSUME BatchOK
  PROVE  /\ capture.stage = "none" => capture = Pitr!Idle
         /\ capture.stage = "listing" => capture \in Listing
         /\ capture.stage = "dumping" => capture \in Dumping
         /\ capture.stage = "uploading" => capture \in Uploading
         /\ capture.stage \in {"none", "listing", "dumping", "uploading"}
<1>1. /\ Pitr!Idle.stage = "none" /\ (\A c \in Listing : c.stage = "listing")
      /\ (\A c \in Dumping : c.stage = "dumping") /\ (\A c \in Uploading : c.stage = "uploading")
  BY DEF Pitr!Idle, Listing, Dumping, Uploading
<1> QED
  BY <1>1 DEF BatchOK

\* Settling changes nothing but the status.
LEMMA SettledFacts ==
  ASSUME Pitr!PitrTypeOK, BatchOK, NEW s \in {"captured", "failed"}
  PROVE  /\ Pitr!Settled(s) \in SUBSET Artifacted
         /\ \A a \in Pitr!Settled(s) : \E b \in artifacts :
              /\ a.log = b.log /\ a.events = b.events /\ a.target = b.target /\ a.batch = b.batch
         /\ \A b \in artifacts : b.batch = batch /\ b.status = "pending" =>
              \E a \in Pitr!Settled(s) :
                a.log = b.log /\ a.target = b.target /\ a.batch = b.batch /\ a.status = s
<1> DEFINE f(a) == IF a.batch = batch /\ a.status = "pending" THEN [a EXCEPT !.status = s] ELSE a
<1>1. artifacts \in SUBSET Artifacted
  BY DEF Pitr!PitrTypeOK, Artifacted
<1>2. \A a \in Artifacted : f(a) \in Artifacted /\ f(a).log = a.log /\ f(a).events = a.events
                            /\ f(a).target = a.target /\ f(a).batch = a.batch
  BY DEF Artifacted
<1>3. \A a \in Artifacted : a.batch = batch /\ a.status = "pending" => f(a).status = s
  BY DEF Artifacted
<1>4. Pitr!Settled(s) = {f(a) : a \in artifacts}
  BY DEF Pitr!Settled
<1> HIDE DEF f
<1> QED
  BY <1>1, <1>2, <1>3, <1>4

\* The claim is about what does not change.
LEMMA ClaimStays ==
  ASSUME ClaimOK, UNCHANGED <<baselines, source>>, \A t : Pitr!StoredOf(artifacts', t) = Pitr!StoredOf(artifacts, t)
  PROVE  ClaimOK'
<1>1. Pitr!Stored(source.target)' = Pitr!Stored(source.target)
  BY DEF Pitr!Stored
<1>2. Pitr!Covered' = Pitr!Covered /\ (Pitr!Rehearsable' <=> Pitr!Rehearsable)
  BY DEF Pitr!Covered, Pitr!Rehearsable
<1>3. \A l : Pitr!Has(source.target, l)' <=> Pitr!Has(source.target, l)
  BY <1>1 DEF Pitr!Has
<1>4. LatestReaches(source.target, source.upto)' <=> LatestReaches(source.target, source.upto)
  BY <1>1 DEF LatestReaches
<1>5. ClaimOK' <=> (Pitr!Rehearsable' => (\A l \in Pitr!Covered' : Pitr!Has(source.target, l)') /\ LatestReaches(source.target, source.upto)')
  BY DEF ClaimOK
<1> QED
  BY <1>2, <1>3, <1>4, <1>5 DEF ClaimOK

\* The server: it writes, rotates and purges.
LEMMA ServerKeeps ==
  ASSUME PitrInv, Pitr!Write \/ Pitr!Rotate \/ Pitr!Purge PROVE PitrInv'
<1>0. Pitr!PitrTypeOK /\ BaselinesOK /\ BatchOK /\ ClaimOK
  BY DEF PitrInv
<1>1. /\ UNCHANGED <<baselines, dumping, source, artifacts, capture, batch, edits>>
      /\ last' >= last /\ last' \in Pitr!Logs /\ first' \in Pitr!Logs /\ last' \in first'..MaxLogs
      /\ size' \in [Pitr!Logs -> 0..MaxEvents] /\ \A l \in Pitr!Logs : size'[l] >= size[l]
  <2>0. /\ first \in Nat /\ last \in Nat /\ 1 <= first /\ first <= last /\ last <= MaxLogs
        /\ size \in [Pitr!Logs -> 0..MaxEvents] /\ \A l \in Pitr!Logs : size[l] \in Nat
    BY <1>0, ArtifactsAssumption DEF Pitr!PitrTypeOK, Pitr!Logs
  <2>1. CASE Pitr!Write
    <3>1. size' = [size EXCEPT ![last] = size[last] + 1] /\ size[last] < MaxEvents /\ last' = last /\ first' = first
      BY <2>1 DEF Pitr!Write
    <3>2. last \in Pitr!Logs /\ size[last] + 1 \in 0..MaxEvents
      BY <2>0, <3>1, ArtifactsAssumption DEF Pitr!Logs
    <3>3. size' \in [Pitr!Logs -> 0..MaxEvents] /\ \A l \in Pitr!Logs : size'[l] >= size[l]
      BY <2>0, <3>1, <3>2
    <3> QED
      BY <2>0, <2>1, <3>1, <3>3, ArtifactsAssumption DEF Pitr!Write, Pitr!Logs
  <2>2. CASE Pitr!Rotate
    BY <2>0, <2>2, ArtifactsAssumption DEF Pitr!Rotate, Pitr!Logs
  <2>3. CASE Pitr!Purge
    BY <2>0, <2>3, ArtifactsAssumption DEF Pitr!Purge, Pitr!Logs
  <2> QED
    BY <2>1, <2>2, <2>3
<1>2. Pitr!PitrTypeOK'
  BY <1>0, <1>1 DEF Pitr!PitrTypeOK
<1>3. Pitr!Newest' = Pitr!Newest
  BY <1>1 DEF Pitr!Newest
<1>4. BaselinesOK'
  <2>1. \A b \in DOMAIN baselines : baselines[b].log \in Nat
    BY <1>0, Numbered DEF Pitr!Coordinate, Pitr!Logs
  <2>2. dumping # NoBaseline => dumping.log \in Nat
    BY <1>0 DEF Pitr!PitrTypeOK, Pitr!Coordinate, Pitr!Logs
  <2>3. last \in Nat /\ last' \in Nat
    BY <1>0, <1>1 DEF Pitr!PitrTypeOK, Pitr!Logs
  <2> QED
    BY <1>0, <1>1, <1>3, <2>1, <2>2, <2>3 DEF BaselinesOK
<1>5. BatchOK'
  <2>1. capture.stage = "dumping" => size'[capture.upto.log] >= capture.upto.pos
    <3> SUFFICES ASSUME capture.stage = "dumping" PROVE size'[capture.upto.log] >= capture.upto.pos
      OBVIOUS
    <3>1. capture.upto \in Pitr!Coordinate
      BY <1>0, CaptureOf DEF Dumping
    <3>2. capture.upto.log \in Pitr!Logs /\ capture.upto.pos \in Nat
      BY <3>1, ArtifactsAssumption DEF Pitr!Coordinate
    <3>3. size[capture.upto.log] \in Nat /\ size'[capture.upto.log] \in Nat
      <4>1. size \in [Pitr!Logs -> 0..MaxEvents] /\ 0..MaxEvents \subseteq Nat
        BY <1>0, ArtifactsAssumption DEF Pitr!PitrTypeOK
      <4> QED
        BY <1>1, <3>2, <4>1
    <3> QED
      BY <1>0, <1>1, <3>2, <3>3 DEF BatchOK
  <2> QED
    BY <1>0, <1>1, <1>3, <2>1 DEF BatchOK
<1>6. ClaimOK'
  BY <1>0, <1>1, ClaimStays
<1> QED
  BY <1>2, <1>4, <1>5, <1>6 DEF PitrInv

\* A dump begins, at the end of the newest log.
LEMMA DumpKeeps == ASSUME PitrInv, Pitr!Dump PROVE PitrInv'
<1>0. Pitr!PitrTypeOK /\ BaselinesOK /\ BatchOK /\ ClaimOK
  BY DEF PitrInv
<1>1. /\ UNCHANGED <<first, last, size, baselines, source, artifacts, capture, batch, edits>>
      /\ dumping' = [log |-> last, pos |-> size[last]] /\ Pitr!Newest + edits < MaxCaptures
  BY DEF Pitr!Dump
<1>2. last \in Pitr!Logs /\ dumping' \in Pitr!Coordinate /\ dumping'.log = last
  BY <1>0, <1>1, ArtifactsAssumption DEF Pitr!PitrTypeOK, Pitr!Coordinate, Pitr!Logs
<1>3. Pitr!PitrTypeOK'
  BY <1>0, <1>1, <1>2 DEF Pitr!PitrTypeOK
<1>4. Pitr!Newest' = Pitr!Newest /\ Pitr!Newest < MaxCaptures
  <2>1. edits \in Nat /\ Pitr!Newest \in Nat
    BY <1>0, Numbered, ArtifactsAssumption DEF Pitr!PitrTypeOK
  <2> QED
    BY <1>1, <2>1, ArtifactsAssumption DEF Pitr!Newest
<1>5. BaselinesOK'
  <2>1. last \in Nat
    BY <1>2 DEF Pitr!Logs
  <2> QED
    BY <1>0, <1>1, <1>2, <1>4, <2>1 DEF BaselinesOK
<1>6. BatchOK'
  BY <1>0, <1>1, <1>4 DEF BatchOK
<1>7. ClaimOK'
  BY <1>0, <1>1, ClaimStays
<1> QED
  BY <1>3, <1>5, <1>6, <1>7 DEF PitrInv

\* It succeeds: another baseline, and nothing is claimed.
LEMMA BaselineKeeps == ASSUME PitrInv, Pitr!Baseline PROVE PitrInv'
<1>0. Pitr!PitrTypeOK /\ BaselinesOK /\ BatchOK /\ ClaimOK
  BY DEF PitrInv
<1> DEFINE n == Pitr!Newest
<1>1. /\ UNCHANGED <<first, last, size, artifacts, capture, batch, edits>>
      /\ dumping # NoBaseline /\ dumping' = NoBaseline
      /\ baselines' = [k \in 1..n + 1 |-> IF k = n + 1 THEN dumping ELSE baselines[k]]
      /\ source' = [source EXCEPT !.gap = "unknown", !.base = NoBaseline]
  BY DEF Pitr!Baseline
<1>2. n \in 0..MaxCaptures /\ baselines \in [1..n -> Pitr!Coordinate] /\ n < MaxCaptures /\ dumping.log <= last
  BY <1>0, <1>1, Numbered DEF BaselinesOK
<1>3. dumping \in Pitr!Coordinate
  BY <1>0, <1>1 DEF Pitr!PitrTypeOK
<1> HIDE DEF n
<1>4. n \in Nat /\ n + 1 \in 0..MaxCaptures /\ baselines' \in [1..n + 1 -> Pitr!Coordinate]
  <2>1. n \in Nat /\ n + 1 \in 0..MaxCaptures
    BY <1>2, ArtifactsAssumption
  <2>2. \A k \in 1..n + 1 : k # n + 1 => k \in 1..n
    BY <2>1
  <2> QED
    BY <1>1, <1>2, <1>3, <2>1, <2>2
<1>5. source' \in [target : Targets, gap : {"unknown", "gap", "continuous"}, base : Pitr!Baselines \cup {NoBaseline}, upto : Pitr!Coordinate]
      /\ source'.gap = "unknown"
  BY <1>0, <1>1 DEF Pitr!PitrTypeOK
<1>6. Pitr!PitrTypeOK'
  BY <1>0, <1>1, <1>4, <1>5 DEF Pitr!PitrTypeOK
<1>7. Pitr!Newest' = n + 1
  <2>1. DOMAIN baselines' = 1..n + 1
    BY <1>4
  <2>2. Cardinality(1..n + 1) = IF 1 > n + 1 THEN 0 ELSE n + 1 - 1 + 1
    BY <1>4, FS_Interval
  <2>3. Cardinality(1..n + 1) = n + 1
    BY <1>4, <2>2
  <2>4. \A S : Pitr!Cardinality(S) = Cardinality(S)
    BY DEF Cardinality, Pitr!Cardinality
  <2> QED
    BY <2>1, <2>3, <2>4 DEF Pitr!Newest
<1>8. BaselinesOK'
  <2>1. \A k \in DOMAIN baselines' : baselines'[k].log <= last'
    <3> SUFFICES ASSUME NEW k \in 1..n + 1 PROVE baselines'[k].log <= last'
      BY <1>4
    <3>1. CASE k = n + 1
      BY <1>1, <1>2, <3>1
    <3>2. CASE k # n + 1
      <4>1. k \in 1..n /\ baselines'[k] = baselines[k]
        BY <1>1, <1>4, <3>2
      <4>2. k \in DOMAIN baselines
        BY <1>2, <4>1
      <4> QED
        BY <1>0, <1>1, <4>1, <4>2 DEF BaselinesOK
    <3> QED
      BY <3>1, <3>2
  <2> QED
    BY <1>1, <2>1 DEF BaselinesOK
<1>9. BatchOK'
  <2>1. capture.stage # "none" => capture.base <= n + 1
    <3> SUFFICES ASSUME capture.stage # "none" PROVE capture.base <= n + 1
      OBVIOUS
    <3>1. capture.base \in Nat /\ capture.base <= n
      BY <1>0, CaptureOf DEF BatchOK, Listing, Dumping, Uploading, n
    <3> QED
      BY <1>4, <3>1
  <2> QED
    BY <1>0, <1>1, <1>7, <2>1 DEF BatchOK
<1>10. ClaimOK'
  BY <1>5 DEF ClaimOK, Pitr!Rehearsable
<1> QED
  BY <1>6, <1>8, <1>9, <1>10 DEF PitrInv

\* Another target: nothing is claimed for it.
LEMMA ConfigureKeeps == ASSUME PitrInv, NEW t \in Targets, Pitr!Configure(t) PROVE PitrInv'
<1>0. Pitr!PitrTypeOK /\ BaselinesOK /\ BatchOK
  BY DEF PitrInv
<1>1. /\ UNCHANGED <<first, last, size, baselines, dumping, artifacts, capture, batch>>
      /\ source' = [source EXCEPT !.target = t, !.gap = "unknown"] /\ edits' = edits + 1
      /\ Pitr!Newest + edits < MaxCaptures
  BY DEF Pitr!Configure
<1>2. /\ source' \in [target : Targets, gap : {"unknown", "gap", "continuous"}, base : Pitr!Baselines \cup {NoBaseline}, upto : Pitr!Coordinate]
      /\ source'.gap = "unknown"
  BY <1>0, <1>1 DEF Pitr!PitrTypeOK
<1>3. edits' \in 0..MaxCaptures
  BY <1>0, <1>1, Numbered, ArtifactsAssumption DEF Pitr!PitrTypeOK
<1>4. Pitr!PitrTypeOK'
  BY <1>0, <1>1, <1>2, <1>3 DEF Pitr!PitrTypeOK
<1>5. Pitr!Newest' = Pitr!Newest
  BY <1>1 DEF Pitr!Newest
<1>6. BaselinesOK' /\ BatchOK'
  BY <1>0, <1>1, <1>5 DEF BaselinesOK, BatchOK
<1>7. ClaimOK'
  BY <1>2 DEF ClaimOK, Pitr!Rehearsable
<1> QED
  BY <1>4, <1>6, <1>7 DEF PitrInv

\* A capture begins with a batch of its own, of which nothing is stored.
LEMMA CaptureBegins == ASSUME PitrInv, Pitr!Begin PROVE PitrInv'
<1>0. Pitr!PitrTypeOK /\ BaselinesOK /\ BatchOK /\ ClaimOK
  BY DEF PitrInv
<1>1. /\ UNCHANGED <<first, last, size, baselines, dumping, source, artifacts, edits>>
      /\ batch < MaxCaptures /\ batch' = batch + 1
      /\ capture' = [stage |-> "listing", target |-> source.target, base |-> Pitr!Newest]
  BY DEF Pitr!Begin
<1>2. batch' \in 0..MaxCaptures /\ Pitr!Newest \in Nat /\ source.target \in Targets /\ batch \in Nat
  <2>1. batch \in 0..MaxCaptures /\ source.target \in Targets /\ MaxCaptures \in Nat
    BY <1>0, ArtifactsAssumption DEF Pitr!PitrTypeOK
  <2>2. Pitr!Newest \in Nat
    BY <1>0, Numbered
  <2> QED
    BY <1>1, <2>1, <2>2
<1>3. Pitr!PitrTypeOK'
  BY <1>0, <1>1, <1>2 DEF Pitr!PitrTypeOK
<1>4. Pitr!Newest' = Pitr!Newest
  BY <1>1 DEF Pitr!Newest
<1>5. BaselinesOK'
  BY <1>0, <1>1, <1>4 DEF BaselinesOK
<1>6. capture' \in Listing /\ capture'.stage = "listing" /\ capture'.base = Pitr!Newest
  BY <1>1, <1>2 DEF Listing
<1>7. \A a \in artifacts : a.batch \in Nat /\ a.batch <= batch
  BY <1>0 DEF Pitr!PitrTypeOK, BatchOK
<1>8. \A a \in artifacts : a.batch <= batch' /\ a.batch < batch'
  BY <1>1, <1>2, <1>7
<1>9. BatchOK'
  BY <1>1, <1>2, <1>4, <1>6, <1>8 DEF BatchOK
<1>10. ClaimOK'
  BY <1>0, <1>1, ClaimStays
<1> QED
  BY <1>3, <1>5, <1>9, <1>10 DEF PitrInv

\* A row whose gap is not continuous claims nothing.
LEMMA NothingClaimed ==
  ASSUME Pitr!PitrTypeOK, NEW g \in {"unknown", "gap"}, capture.target \in Targets, source' = Pitr!Recorded(g)
  PROVE  /\ source' \in [target : Targets, gap : {"unknown", "gap", "continuous"}, base : Pitr!Baselines \cup {NoBaseline}, upto : Pitr!Coordinate]
         /\ ClaimOK'
<1>1. /\ source' \in [target : Targets, gap : {"unknown", "gap", "continuous"}, base : Pitr!Baselines \cup {NoBaseline}, upto : Pitr!Coordinate]
      /\ source'.gap = g
  BY DEF Pitr!PitrTypeOK, Pitr!Recorded
<1> QED
  BY <1>1 DEF ClaimOK, Pitr!Rehearsable

\* The server is asked for its logs: the newest is always among those requested.
LEMMA ListKeeps == ASSUME PitrInv, Pitr!List PROVE PitrInv'
<1>0. Pitr!PitrTypeOK /\ BaselinesOK /\ BatchOK /\ ClaimOK
  BY DEF PitrInv
<1>1. /\ UNCHANGED <<first, last, size, baselines, dumping, artifacts, batch, edits>> /\ capture.stage = "listing"
  BY DEF Pitr!List
<1>2. capture \in Listing /\ capture.target \in Targets /\ capture.base \in Nat
  BY <1>0, <1>1, CaptureOf DEF Listing
<1>3. Pitr!Newest' = Pitr!Newest
  BY <1>1 DEF Pitr!Newest
<1>4. BaselinesOK'
  BY <1>0, <1>1, <1>3 DEF BaselinesOK
<1>5. CASE capture.base = 0 \/ baselines[capture.base].log < first
  <2>1. capture' = Pitr!Idle /\ \E g \in {"unknown", "gap"} : source' = Pitr!Recorded(g)
    BY <1>5 DEF Pitr!List
  <2>2. /\ source' \in [target : Targets, gap : {"unknown", "gap", "continuous"}, base : Pitr!Baselines \cup {NoBaseline}, upto : Pitr!Coordinate]
        /\ ClaimOK'
    BY <1>0, <1>2, <2>1, NothingClaimed
  <2>3. Pitr!PitrTypeOK'
    BY <1>0, <1>1, <2>2 DEF Pitr!PitrTypeOK
  <2>4. BatchOK'
    BY <1>0, <1>1, <2>1 DEF BatchOK, Pitr!Idle
  <2> QED
    BY <1>4, <2>2, <2>3, <2>4 DEF PitrInv
<1>6. CASE ~(capture.base = 0 \/ baselines[capture.base].log < first)
  <2> DEFINE b == capture.base
             req == Pitr!Requested(capture.target, baselines[b].log, last)
             up == [log |-> last, pos |-> size[last]]
  <2>1. /\ capture' = [stage |-> "dumping", target |-> capture.target, base |-> b, upto |-> up, logs |-> req]
        /\ source' = source
    BY <1>6 DEF Pitr!List
  <2>2. b \in DOMAIN baselines /\ baselines[b] \in Pitr!Coordinate /\ b # 0
    BY <1>0, <1>1, <1>2, <1>6, Numbered DEF BatchOK
  <2>3. baselines[b].log \in Pitr!Logs /\ baselines[b].log <= last /\ last \in Pitr!Logs
    BY <1>0, <2>2, ArtifactsAssumption DEF BaselinesOK, Pitr!Coordinate, Pitr!PitrTypeOK, Pitr!Logs
  <2>4. req \in SUBSET Pitr!Logs /\ last \in req
    <3>1. last \in baselines[b].log..last /\ baselines[b].log..last \subseteq Pitr!Logs
      BY <2>3, ArtifactsAssumption DEF Pitr!Logs
    <3> QED
      BY <3>1 DEF Pitr!Requested
  <2>5. up \in Pitr!Coordinate /\ up.log = last /\ up.pos = size[last] /\ size[last] \in Nat
    BY <1>0, <2>3, ArtifactsAssumption DEF Pitr!Coordinate, Pitr!PitrTypeOK
  <2> HIDE DEF b, req, up
  <2>6. /\ capture' \in Dumping /\ capture'.stage = "dumping" /\ capture'.base = b /\ capture'.upto = up /\ capture'.logs = req
    BY <1>2, <2>1, <2>4, <2>5 DEF Dumping, b
  <2>7. b <= Pitr!Newest
    BY <1>0, <1>1 DEF BatchOK, b
  <2>8. BatchOK'
    BY <1>0, <1>1, <1>3, <2>2, <2>4, <2>5, <2>6, <2>7 DEF BatchOK
  <2>9. Pitr!PitrTypeOK'
    BY <1>0, <1>1, <2>1 DEF Pitr!PitrTypeOK
  <2>10. ClaimOK'
    BY <1>0, <1>1, <2>1, ClaimStays
  <2> QED
    BY <1>4, <2>8, <2>9, <2>10 DEF PitrInv
<1> QED
  BY <1>5, <1>6

\* What is copied is at least what was listed.
LEMMA CopyKeeps == ASSUME PitrInv, Pitr!CopyLogs PROVE PitrInv'
<1>0. Pitr!PitrTypeOK /\ BaselinesOK /\ BatchOK /\ ClaimOK
  BY DEF PitrInv
<1>1. /\ UNCHANGED <<first, last, size, baselines, dumping, source, artifacts, batch, edits>> /\ capture.stage = "dumping"
      /\ capture' = [stage |-> "uploading", target |-> capture.target, base |-> capture.base,
                     upto |-> capture.upto, logs |-> capture.logs, copied |-> size]
  BY DEF Pitr!CopyLogs
<1>2. capture \in Dumping
  BY <1>0, <1>1, CaptureOf
<1>3. size \in [Pitr!Logs -> 0..MaxEvents]
  BY <1>0 DEF Pitr!PitrTypeOK
<1>4. /\ capture' \in Uploading /\ capture'.stage = "uploading" /\ capture'.base = capture.base
      /\ capture'.upto = capture.upto /\ capture'.logs = capture.logs /\ capture'.copied = size
  BY <1>1, <1>2, <1>3 DEF Dumping, Uploading
<1>5. Pitr!Newest' = Pitr!Newest
  BY <1>1 DEF Pitr!Newest
<1>6. \A a \in artifacts : a.batch # batch
  <2>1. \A a \in artifacts : a.batch \in Nat /\ a.batch < batch /\ batch \in Nat
    BY <1>0, <1>1, ArtifactsAssumption DEF BatchOK, Pitr!PitrTypeOK
  <2> QED
    BY <2>1
<1>7. BatchOK'
  BY <1>0, <1>1, <1>4, <1>5, <1>6 DEF BatchOK
<1>8. Pitr!PitrTypeOK' /\ BaselinesOK'
  BY <1>0, <1>1, <1>5 DEF Pitr!PitrTypeOK, BaselinesOK
<1>9. ClaimOK'
  BY <1>0, <1>1, ClaimStays
<1> QED
  BY <1>7, <1>8, <1>9 DEF PitrInv

\* One log more is stored, as it was copied; it counts only with its batch.
LEMMA UploadKeeps == ASSUME PitrInv, NEW l \in Pitr!Logs, Pitr!Upload(l) PROVE PitrInv'
<1>0. Pitr!PitrTypeOK /\ BaselinesOK /\ BatchOK /\ ClaimOK
  BY DEF PitrInv
<1> DEFINE a0 == [log |-> l, events |-> capture.copied[l], target |-> capture.target, batch |-> batch, status |-> "pending"]
           rest0 == capture.logs \ {l}
<1>1. /\ UNCHANGED <<first, last, size, baselines, dumping, source, batch, edits>>
      /\ capture.stage = "uploading" /\ l \in capture.logs
      /\ artifacts' = artifacts \cup {a0}
      /\ capture' = [capture EXCEPT !.logs = rest0]
  BY DEF Pitr!Upload
<1>2. capture \in Uploading /\ capture.target \in Targets /\ capture.copied[l] \in 0..MaxEvents
  BY <1>0, <1>1, CaptureOf DEF Uploading
<1>3. /\ a0 \in Artifacted /\ a0.log = l /\ a0.events = capture.copied[l] /\ a0.target = capture.target
      /\ a0.batch = batch /\ a0.status = "pending" /\ batch \in Nat
  BY <1>0, <1>2, ArtifactsAssumption DEF Artifacted, Pitr!PitrTypeOK
<1>4. rest0 \in SUBSET Pitr!Logs /\ \A k : k \in capture.logs => k = l \/ k \in rest0
  BY <1>2 DEF Uploading
<1> HIDE DEF a0, rest0
<1>5. /\ capture' \in Uploading /\ capture'.stage = "uploading" /\ capture'.logs = rest0 /\ capture'.upto = capture.upto
      /\ capture'.copied = capture.copied /\ capture'.base = capture.base /\ capture'.target = capture.target
  BY <1>1, <1>2, <1>4 DEF Uploading
<1>6. Pitr!PitrTypeOK'
  <2>1. artifacts' \subseteq Artifacted
    BY <1>0, <1>1, <1>3 DEF Pitr!PitrTypeOK, Artifacted
  <2> QED
    BY <1>0, <1>1, <2>1 DEF Pitr!PitrTypeOK, Artifacted
<1>7. Pitr!Newest' = Pitr!Newest
  BY <1>1 DEF Pitr!Newest
<1>8. BaselinesOK'
  BY <1>0, <1>1, <1>7 DEF BaselinesOK
<1>9. BatchOK'
  <2>1. capture.upto.log \in rest0 \/ \E a \in artifacts' : a.batch = batch /\ a.log = capture.upto.log
    <3>1. CASE capture.upto.log \in capture.logs
      BY <1>1, <1>3, <1>4, <3>1
    <3>2. CASE \E a \in artifacts : a.batch = batch /\ a.log = capture.upto.log
      BY <1>1, <3>2
    <3> QED
      BY <1>0, <1>1, <3>1, <3>2 DEF BatchOK
  <2>2. \A a \in artifacts' : a.batch = batch =>
            a.status = "pending" /\ a.target = capture.target /\ a.events = capture.copied[a.log]
    BY <1>0, <1>1, <1>3 DEF BatchOK
  <2>3. \A a \in artifacts' : a.batch <= batch
    BY <1>0, <1>1, <1>3 DEF BatchOK
  <2> QED
    BY <1>0, <1>1, <1>5, <1>7, <2>1, <2>2, <2>3 DEF BatchOK
<1>10. \A t : Pitr!StoredOf(artifacts', t) = Pitr!StoredOf(artifacts, t)
  BY <1>1, <1>3 DEF Pitr!StoredOf
<1>11. ClaimOK'
  BY <1>0, <1>1, <1>10, ClaimStays
<1> QED
  BY <1>6, <1>8, <1>9, <1>11 DEF PitrInv

\* A capture ends, and the statuses of its batch with it.
LEMMA EndsOK ==
  ASSUME PitrInv, NEW s \in {"captured", "failed"}, artifacts' = Pitr!Settled(s), capture' = Pitr!Idle,
         UNCHANGED <<first, last, size, baselines, dumping, batch, edits>>,
         source' \in [target : Targets, gap : {"unknown", "gap", "continuous"}, base : Pitr!Baselines \cup {NoBaseline}, upto : Pitr!Coordinate]
  PROVE  Pitr!PitrTypeOK' /\ BaselinesOK' /\ BatchOK'
<1>0. Pitr!PitrTypeOK /\ BaselinesOK /\ BatchOK
  BY DEF PitrInv
<1>1. /\ artifacts' \in SUBSET Artifacted
      /\ \A a \in artifacts' : \E b \in artifacts : a.batch = b.batch
  BY <1>0, SettledFacts
<1>2. Pitr!PitrTypeOK'
  BY <1>0, <1>1 DEF Pitr!PitrTypeOK, Artifacted
<1>3. Pitr!Newest' = Pitr!Newest
  BY DEF Pitr!Newest
<1>4. BaselinesOK'
  BY <1>0, <1>3 DEF BaselinesOK
<1>5. \A a \in artifacts' : a.batch <= batch'
  BY <1>0, <1>1 DEF BatchOK
<1>6. BatchOK'
  BY <1>5 DEF BatchOK, Pitr!Idle
<1> QED
  BY <1>2, <1>4, <1>6

\* A failure: what it has stored does not count, and nothing is claimed.
LEMMA CaptureFails == ASSUME PitrInv, Pitr!Fail PROVE PitrInv'
<1>0. Pitr!PitrTypeOK /\ BatchOK
  BY DEF PitrInv
<1>1. capture.target \in Targets
  BY <1>0, CaptureOf DEF Pitr!Fail, Listing, Dumping, Uploading
<1>2. /\ source' \in [target : Targets, gap : {"unknown", "gap", "continuous"}, base : Pitr!Baselines \cup {NoBaseline}, upto : Pitr!Coordinate]
      /\ ClaimOK'
  BY <1>0, <1>1, NothingClaimed DEF Pitr!Fail
<1>3. Pitr!PitrTypeOK' /\ BaselinesOK' /\ BatchOK'
  BY <1>2, EndsOK DEF Pitr!Fail
<1> QED
  BY <1>2, <1>3 DEF PitrInv

\* A crash leaves the batch as it is: it never counts.
LEMMA CrashKeeps == ASSUME PitrInv, Pitr!Crash PROVE PitrInv'
<1>0. Pitr!PitrTypeOK /\ BaselinesOK /\ BatchOK /\ ClaimOK
  BY DEF PitrInv
<1>1. /\ capture' = Pitr!Idle /\ dumping' = NoBaseline
      /\ UNCHANGED <<first, last, size, baselines, source, artifacts, batch, edits>>
  BY DEF Pitr!Crash
<1>2. Pitr!Newest' = Pitr!Newest
  BY <1>1 DEF Pitr!Newest
<1>3. Pitr!PitrTypeOK' /\ BaselinesOK' /\ BatchOK'
  BY <1>0, <1>1, <1>2 DEF Pitr!PitrTypeOK, BaselinesOK, BatchOK, Pitr!Idle
<1>4. ClaimOK'
  BY <1>0, <1>1, ClaimStays
<1> QED
  BY <1>3, <1>4 DEF PitrInv

\* All files are stored: the batch counts, and its last log is the newest there is of it.
LEMMA CompleteKeeps == ASSUME PitrInv, Pitr!Complete PROVE PitrInv'
<1>0. Pitr!PitrTypeOK /\ BaselinesOK /\ BatchOK /\ ClaimOK
  BY DEF PitrInv
<1> DEFINE rows == Pitr!Settled("captured")
           t == capture.target
           u == capture.upto
<1>1. /\ UNCHANGED <<first, last, size, baselines, dumping, batch, edits>>
      /\ capture.stage = "uploading" /\ capture.logs = {} /\ artifacts' = rows /\ capture' = Pitr!Idle
      /\ source' = [target |-> t, base |-> capture.base, upto |-> u,
                    gap |-> IF baselines[capture.base].log..u.log \subseteq {a.log : a \in Pitr!StoredOf(rows, t)}
                            THEN "continuous" ELSE "gap"]
  BY DEF Pitr!Complete
<1>2. capture \in Uploading /\ t \in Targets /\ u \in Pitr!Coordinate /\ u.log \in Pitr!Logs /\ u.pos \in Nat
  BY <1>0, <1>1, CaptureOf, ArtifactsAssumption DEF Uploading, Pitr!Coordinate
<1>3. capture.base \in Pitr!Baselines
  <2>1. Pitr!Newest \in 0..MaxCaptures /\ capture.base \in Nat /\ capture.base # 0 /\ capture.base <= Pitr!Newest
    BY <1>0, <1>1, <1>2, Numbered DEF Uploading, BatchOK
  <2> QED
    BY <2>1, ArtifactsAssumption DEF Pitr!Baselines
<1>4. /\ rows \in SUBSET Artifacted
      /\ \A a \in rows : \E b \in artifacts :
              /\ a.log = b.log /\ a.events = b.events /\ a.target = b.target /\ a.batch = b.batch
      /\ \A b \in artifacts : b.batch = batch /\ b.status = "pending" =>
              \E a \in rows : a.log = b.log /\ a.target = b.target /\ a.batch = b.batch /\ a.status = "captured"
  BY <1>0, SettledFacts
<1> HIDE DEF rows, t, u
<1>5. /\ source' \in [target : Targets, gap : {"unknown", "gap", "continuous"}, base : Pitr!Baselines \cup {NoBaseline}, upto : Pitr!Coordinate]
      /\ source'.target = t /\ source'.base = capture.base /\ source'.upto = u
      /\ source'.gap = "continuous" => baselines[capture.base].log..u.log \subseteq {a.log : a \in Pitr!StoredOf(rows, t)}
  BY <1>1, <1>2, <1>3
<1>6. Pitr!PitrTypeOK' /\ BaselinesOK' /\ BatchOK'
  BY <1>1, <1>5, EndsOK DEF rows
<1>7. /\ capture.copied[u.log] >= u.pos /\ capture.copied[u.log] \in Nat
      /\ \E a \in artifacts : a.batch = batch /\ a.log = u.log
      /\ \A a \in artifacts : a.batch = batch =>
            a.status = "pending" /\ a.target = t /\ a.events = capture.copied[a.log]
  BY <1>0, <1>1, <1>2, ArtifactsAssumption DEF BatchOK, Uploading, u, t
<1>8. batch \in Nat /\ \A a \in artifacts : a.batch <= batch
  BY <1>0, ArtifactsAssumption DEF BatchOK, Pitr!PitrTypeOK
<1>9. \E a \in Pitr!StoredOf(rows, t) : a.log = u.log /\ a.batch = batch
  BY <1>4, <1>7 DEF Pitr!StoredOf
<1>10. \A a \in Pitr!StoredOf(rows, t) : a.log = u.log => a.batch <= batch /\ (a.batch = batch => a.events >= u.pos)
  BY <1>4, <1>7, <1>8 DEF Pitr!StoredOf
<1>11. \A x : Pitr!StoredOf(artifacts', x) = Pitr!StoredOf(rows, x)
  BY <1>1
<1>12. LatestReaches(source.target, source.upto)'
  BY <1>5, <1>8, <1>9, <1>10, <1>11 DEF LatestReaches, Pitr!Stored
<1>13. ASSUME Pitr!Rehearsable' PROVE \A l \in Pitr!Covered' : Pitr!Has(source.target, l)'
  <2>1. Pitr!Covered' = baselines[capture.base].log..u.log
    BY <1>1, <1>5 DEF Pitr!Covered
  <2>2. baselines[capture.base].log..u.log \subseteq {a.log : a \in Pitr!StoredOf(rows, t)}
    BY <1>5, <1>13 DEF Pitr!Rehearsable
  <2>3. \A l : Pitr!Has(source.target, l)' <=> \E a \in Pitr!StoredOf(rows, t) : a.log = l
    BY <1>5, <1>11 DEF Pitr!Has, Pitr!Stored
  <2> QED
    BY <2>1, <2>2, <2>3
<1>14. ClaimOK'
  BY <1>12, <1>13 DEF ClaimOK
<1> QED
  BY <1>6, <1>14 DEF PitrInv

\* At a start nothing is claimed.
LEMMA PitrStart == Pitr!PitrInit => PitrInv
<1> SUFFICES ASSUME Pitr!PitrInit PROVE PitrInv
  OBVIOUS
<1>1. baselines = <<>> /\ DOMAIN baselines = 1..0 /\ baselines \in [1..0 -> Pitr!Coordinate]
  BY DEF Pitr!PitrInit
<1>2. 1 \in Pitr!Logs /\ [log |-> 1, pos |-> 0] \in Pitr!Coordinate /\ size \in [Pitr!Logs -> 0..MaxEvents]
  BY ArtifactsAssumption DEF Pitr!PitrInit, Pitr!Logs, Pitr!Coordinate
<1>3. /\ source \in [target : Targets, gap : {"unknown", "gap", "continuous"}, base : Pitr!Baselines \cup {NoBaseline}, upto : Pitr!Coordinate]
      /\ source.gap = "unknown"
  BY <1>2 DEF Pitr!PitrInit
<1>4. first \in Pitr!Logs /\ last \in first..MaxLogs /\ 0 \in 0..MaxCaptures
  BY ArtifactsAssumption DEF Pitr!PitrInit, Pitr!Logs
<1>5. Pitr!PitrTypeOK
  BY <1>1, <1>2, <1>3, <1>4 DEF Pitr!PitrTypeOK, Pitr!PitrInit
<1>6. BaselinesOK /\ BatchOK /\ ClaimOK
  BY <1>1, <1>3 DEF BaselinesOK, BatchOK, ClaimOK, Pitr!PitrInit, Pitr!Idle, Pitr!Rehearsable
<1> QED
  BY <1>5, <1>6 DEF PitrInv

\* No other side touches them.
LEMMA PitrStep == PitrInv /\ [ArtifactsNext]_<<rest, people, side>> => PitrInv'
<1> SUFFICES ASSUME PitrInv, [ArtifactsNext]_<<rest, people, side>> PROVE PitrInv'
  OBVIOUS
<1>1. ASSUME UNCHANGED pitr PROVE PitrInv'
  <2>0. Pitr!PitrTypeOK /\ BaselinesOK /\ BatchOK /\ ClaimOK
    BY DEF PitrInv
  <2>1. UNCHANGED <<first, last, size, baselines, dumping, source, artifacts, capture, batch, edits>>
    BY <1>1 DEF pitr
  <2>2. Pitr!Newest' = Pitr!Newest
    BY <2>1 DEF Pitr!Newest
  <2>3. Pitr!PitrTypeOK' /\ BaselinesOK' /\ BatchOK'
    BY <2>0, <2>1, <2>2 DEF Pitr!PitrTypeOK, BaselinesOK, BatchOK
  <2>4. ClaimOK'
    BY <2>0, <2>1, ClaimStays
  <2> QED
    BY <2>3, <2>4 DEF PitrInv
<1>2. ASSUME Pitr!PitrNext PROVE PitrInv'
  BY <1>2, ServerKeeps, DumpKeeps, BaselineKeeps, ConfigureKeeps, CaptureBegins, ListKeeps, CopyKeeps, UploadKeeps,
     CompleteKeeps, CaptureFails, CrashKeeps DEF Pitr!PitrNext
<1>3. UNCHANGED pitr \/ Pitr!PitrNext
  BY DEF ArtifactsNext, rest
<1> QED
  BY <1>1, <1>2, <1>3

\* A coverage that is called continuous has an artifact of every log since its
\* baseline on the configured target, and the latest of the last log reaches up to
\* the claimed time (capturePitr, savePitrConfiguration of backup/backup.service.ts).
THEOREM ContinuousIsComplete == ArtifactsSpec => []ContinuousHasEveryLog
<1>1. ArtifactsInit => PitrInv
  BY PitrStart DEF ArtifactsInit
<1>2. PitrInv => ContinuousHasEveryLog
  <2> SUFFICES ASSUME PitrInv, Pitr!Rehearsable
               PROVE  /\ \A l \in Pitr!Covered : Pitr!Has(source.target, l)
                      /\ Pitr!LatestOf(source.upto.log).events >= source.upto.pos
    BY DEF ContinuousHasEveryLog, Pitr!ContinuousHasEveryLog
  <2>1. /\ \A l \in Pitr!Covered : Pitr!Has(source.target, l)
        /\ LatestReaches(source.target, source.upto)
    BY DEF PitrInv, ClaimOK
  <2> DEFINE S == Pitr!Stored(source.target)
             n == source.upto.log
  <2>2. PICK k \in Nat :
          /\ \E a \in S : a.log = n /\ a.batch = k
          /\ \A a \in S : a.log = n => a.batch <= k /\ (a.batch = k => a.events >= source.upto.pos)
    BY <2>1 DEF LatestReaches
  <2>3. \A a \in S : a.batch \in Nat
    BY DEF PitrInv, Pitr!PitrTypeOK, Pitr!Stored, Pitr!StoredOf
  <2>4. Pitr!LatestOf(n) = CHOOSE a \in S : a.log = n /\ \A b \in S : b.log = n => b.batch <= a.batch
    BY DEF Pitr!LatestOf
  <2> HIDE DEF S, n
  <2>5. \E a \in S : a.log = n /\ \A b \in S : b.log = n => b.batch <= a.batch
    BY <2>2
  <2>6. /\ Pitr!LatestOf(n) \in S /\ Pitr!LatestOf(n).log = n
        /\ \A b \in S : b.log = n => b.batch <= Pitr!LatestOf(n).batch
    BY <2>4, <2>5
  <2>7. Pitr!LatestOf(n).batch = k
    BY <2>2, <2>3, <2>6
  <2>8. Pitr!LatestOf(n).events >= source.upto.pos
    BY <2>2, <2>6, <2>7
  <2> QED
    BY <2>1, <2>8 DEF n
<1> QED
  BY <1>1, <1>2, PitrStep, PTL DEF ArtifactsSpec

-----------------------------------------------------------------------------
(* Entries of a sequence at some of its positions *)

Below(P, i) == {j \in P : j <= i}
Turn(P) == [i \in P |-> Cardinality(Below(P, i))]

\* The positions of a sequence, and some of them, are finitely many.
LEMMA FinitelyMany ==
  ASSUME NEW n \in Nat, NEW P \in SUBSET (1 .. n)
  PROVE  /\ IsFiniteSet(P) /\ Cardinality(P) \in Nat
         /\ \A T \in SUBSET P : IsFiniteSet(T) /\ Cardinality(T) \in Nat /\ Cardinality(T) <= Cardinality(P)
<1>1. IsFiniteSet(1 .. n)
  BY FS_Interval
<1>2. IsFiniteSet(P)
  BY <1>1, FS_Subset
<1> QED
  BY <1>2, FS_Subset, FS_CardinalityType

\* Two positions differ in rank, the later one has the higher.
LEMMA RanksGrow ==
  ASSUME NEW n \in Nat, NEW P \in SUBSET (1 .. n), NEW i \in P, NEW j \in P, i < j
  PROVE  Cardinality(Below(P, i)) < Cardinality(Below(P, j))
<1>1. /\ IsFiniteSet(Below(P, i)) /\ IsFiniteSet(Below(P, j))
      /\ Cardinality(Below(P, i)) \in Nat /\ Cardinality(Below(P, j)) \in Nat
  BY FinitelyMany DEF Below
<1>2. Below(P, i) \cup {j} \subseteq Below(P, j) /\ j \notin Below(P, i)
  <2>1. P \subseteq Int
    OBVIOUS
  <2>2. \A k \in P : k <= i => k <= j
    BY <2>1
  <2>3. j <= j /\ ~(j <= i)
    BY <2>1
  <2> QED
    BY <2>2, <2>3 DEF Below
<1>3. Cardinality(Below(P, i) \cup {j}) = Cardinality(Below(P, i)) + 1
  BY <1>1, <1>2, FS_AddElement
<1>4. Cardinality(Below(P, i) \cup {j}) <= Cardinality(Below(P, j))
  BY <1>1, <1>2, FS_Subset
<1> QED
  BY <1>1, <1>3, <1>4

\* Every number up to that of the positions is the rank of one of them.
LEMMA RanksCover ==
  ASSUME NEW n \in Nat, NEW P \in SUBSET (1 .. n)
  PROVE  /\ \A i \in P : Cardinality(Below(P, i)) \in 1 .. Cardinality(P)
         /\ \A k \in 1 .. Cardinality(P) : \E i \in P : Cardinality(Below(P, i)) = k
         /\ \A i, j \in P : Cardinality(Below(P, i)) = Cardinality(Below(P, j)) => i = j
<1>a. IsFiniteSet(P) /\ Cardinality(P) \in Nat
  BY FinitelyMany
<1>b. P \subseteq Int
  OBVIOUS
<1>0. IsFiniteSet(P) /\ Cardinality(P) \in Nat /\ P \subseteq Int
  BY <1>a, <1>b
<1>1. ASSUME NEW i \in P PROVE Cardinality(Below(P, i)) \in 1 .. Cardinality(P)
  <2>1. /\ Cardinality(Below(P, i)) \in Nat /\ Cardinality(Below(P, i)) <= Cardinality(P)
        /\ IsFiniteSet(Below(P, i)) /\ i \in Below(P, i)
    <3>1. Below(P, i) \in SUBSET P /\ i \in Below(P, i)
      BY <1>0 DEF Below
    <3> QED
      BY <3>1, FinitelyMany
  <2>2. Cardinality(Below(P, i)) # 0
    BY <2>1, FS_EmptySet
  <2> QED
    BY <1>0, <2>1, <2>2
<1>2. ASSUME NEW i \in P, NEW j \in P, Cardinality(Below(P, i)) = Cardinality(Below(P, j)) PROVE i = j
  <2>1. i < j \/ j < i \/ i = j
    BY <1>0
  <2>2. Cardinality(Below(P, i)) \in Int /\ Cardinality(Below(P, j)) \in Int
    BY <1>1
  <2> QED
    BY <1>2, <2>1, <2>2, RanksGrow
<1> DEFINE C == 1 .. Cardinality(P)
<1>3. IsFiniteSet(C) /\ Cardinality(C) = Cardinality(P)
  BY <1>0, FS_Interval
<1>4. Turn(P) \in Injection(P, C)
  BY <1>1, <1>2 DEF Turn, Injection, IsInjective
<1>5. Turn(P) \in Surjection(P, C)
  BY <1>3, <1>4, FS_Injection
<1>6. \A k \in C : \E i \in P : Cardinality(Below(P, i)) = k
  BY <1>5 DEF Turn, Surjection
<1> QED
  BY <1>1, <1>2, <1>6

\* The instance counts as the library does.
LEMMA AccessCounts == \A S : Access!Cardinality(S) = Cardinality(S)
  BY DEF Cardinality, Access!Cardinality

\* What is at the positions P of a sequence: their entries, each once.
LEMMA AtEntries ==
  ASSUME NEW S, NEW ss \in Seq(S), NEW P \in SUBSET DOMAIN ss
  PROVE  \E place \in [1 .. Cardinality(P) -> P] :
           /\ Access!At(ss, P) = [k \in 1 .. Cardinality(P) |-> ss[place[k]]]
           /\ \A k \in 1 .. Cardinality(P) : Access!Rank(P, place[k]) = k
           /\ \A i \in P : Access!Rank(P, i) \in 1 .. Cardinality(P) /\ place[Access!Rank(P, i)] = i
<1> DEFINE C == 1 .. Cardinality(P)
           place == [k \in C |-> CHOOSE i \in P : Access!Rank(P, i) = k]
<1>a. Len(ss) \in Nat /\ P \in SUBSET (1 .. Len(ss))
  OBVIOUS
<1>0. /\ \A i \in P : Cardinality(Below(P, i)) \in C
      /\ \A k \in C : \E i \in P : Cardinality(Below(P, i)) = k
      /\ \A i, j \in P : Cardinality(Below(P, i)) = Cardinality(Below(P, j)) => i = j
  BY <1>a, RanksCover
<1>1. Access!At(ss, P) = [k \in C |-> ss[place[k]]]
  <2>1. Access!Cardinality(P) = Cardinality(P)
    BY AccessCounts
  <2>2. Access!At(ss, P) = [k \in C |-> ss[CHOOSE i \in P : Access!Rank(P, i) = k]]
    BY <2>1 DEF Access!At
  <2> QED
    BY <2>2
<1>2. \A i \in P : Access!Rank(P, i) = Cardinality(Below(P, i))
  BY AccessCounts DEF Access!Rank, Below
<1> HIDE DEF C
<1>3. ASSUME NEW k \in C PROVE place[k] \in P /\ Access!Rank(P, place[k]) = k
  <2>1. \E i \in P : Access!Rank(P, i) = k
    BY <1>0, <1>2
  <2> QED
    BY <2>1
<1>4. ASSUME NEW i \in P PROVE Access!Rank(P, i) \in C
  BY <1>0, <1>2
<1>5. place \in [C -> P]
  BY <1>3
<1> HIDE DEF place
<1>6. ASSUME NEW i \in P PROVE place[Access!Rank(P, i)] = i
  <2>1. PICK j \in P : j = place[Access!Rank(P, i)]
    BY <1>3, <1>4
  <2>2. Access!Rank(P, j) = Access!Rank(P, i)
    BY <1>3, <1>4, <2>1
  <2>3. Cardinality(Below(P, j)) = Cardinality(Below(P, i))
    BY <1>2, <2>2
  <2>4. j = i
    BY <1>0, <2>3
  <2> QED
    BY <2>1, <2>4
<1> QED
  BY <1>1, <1>3, <1>4, <1>5, <1>6 DEF C

\* A part of a sequence: a sequence, of which the entries with a property are as many as
\* there are at the positions.
LEMMA AtKeeps ==
  ASSUME NEW S, NEW ss \in Seq(S), NEW P \in SUBSET DOMAIN ss
  PROVE  LET kept == Access!At(ss, P) IN
         /\ kept \in Seq(S) /\ Len(kept) = Cardinality(P) /\ DOMAIN kept = 1 .. Cardinality(P)
         /\ \A k \in DOMAIN kept : \E i \in P : kept[k] = ss[i]
         /\ P # {} => kept # <<>>
         /\ \A u : Cardinality(Access!Of(kept, u)) = Cardinality(P \cap Access!Of(ss, u))
<1> DEFINE kept == Access!At(ss, P)
<1>0. P \in SUBSET (1 .. Len(ss)) /\ Len(ss) \in Nat
  OBVIOUS
<1>1. PICK place \in [1 .. Cardinality(P) -> P] :
        /\ kept = [k \in 1 .. Cardinality(P) |-> ss[place[k]]]
        /\ \A k \in 1 .. Cardinality(P) : Access!Rank(P, place[k]) = k
        /\ \A i \in P : Access!Rank(P, i) \in 1 .. Cardinality(P) /\ place[Access!Rank(P, i)] = i
  BY AtEntries
<1>2. IsFiniteSet(P) /\ Cardinality(P) \in Nat
  BY <1>0, FinitelyMany
<1> HIDE DEF kept
<1>3. \A k \in 1 .. Cardinality(P) : place[k] \in P /\ ss[place[k]] \in S /\ kept[k] = ss[place[k]]
  BY <1>1
<1>4. kept \in Seq(S) /\ Len(kept) = Cardinality(P) /\ DOMAIN kept = 1 .. Cardinality(P)
  <2>1. kept \in [1 .. Cardinality(P) -> S]
    BY <1>1, <1>3
  <2> QED
    BY <1>2, <2>1
<1>5. P # {} => kept # <<>>
  BY <1>2, <1>4, FS_EmptySet
<1>6. ASSUME NEW u PROVE Cardinality(Access!Of(kept, u)) = Cardinality(P \cap Access!Of(ss, u))
  <2> DEFINE A == P \cap Access!Of(ss, u)
             B == Access!Of(kept, u)
             f == [i \in A |-> Access!Rank(P, i)]
  <2>1. \A i \in A : i \in P /\ i \in DOMAIN ss /\ ss[i].user = u
    BY DEF Access!Of
  <2>2. \A i \in P : ss[i].user = u => i \in A
    BY DEF Access!Of
  <2>3. \A k : k \in B <=> k \in 1 .. Cardinality(P) /\ kept[k].user = u
    BY <1>4 DEF Access!Of
  <2>4. IsFiniteSet(A)
    BY <1>2, FS_Subset
  <2> HIDE DEF A, B
  <2>5. \A i \in A : f[i] \in B
    BY <1>1, <1>3, <2>1, <2>3
  <2>6. \A i, j \in A : f[i] = f[j] => i = j
    BY <1>1, <2>1
  <2>7. \A k \in B : place[k] \in A /\ f[place[k]] = k
    BY <1>1, <1>3, <2>2, <2>3
  <2>8. f \in [A -> B]
    BY <2>5
  <2> HIDE DEF f
  <2>9. f \in Bijection(A, B)
    BY <2>6, <2>7, <2>8 DEF Bijection, Injection, Surjection, IsInjective
  <2>10. ExistsBijection(A, B)
    BY <2>9 DEF ExistsBijection
  <2> QED
    BY <2>4, <2>10, FS_Bijection DEF A, B
<1> QED
  BY <1>3, <1>4, <1>5, <1>6 DEF kept

\* The part of a sequence at some of its positions has no more of anyone.
LEMMA AtShrinks ==
  ASSUME NEW S, NEW ss \in Seq(S), NEW P \in SUBSET DOMAIN ss
  PROVE  LET kept == Access!At(ss, P) IN
         /\ kept \in Seq(S) /\ Len(kept) \in Nat /\ Len(kept) <= Len(ss)
         /\ \A u : /\ Cardinality(Access!Of(kept, u)) \in Nat /\ Cardinality(Access!Of(ss, u)) \in Nat
                  /\ Cardinality(Access!Of(kept, u)) <= Cardinality(Access!Of(ss, u))
<1> DEFINE kept == Access!At(ss, P)
           D == DOMAIN ss
<1>1. D = 1 .. Len(ss) /\ Len(ss) \in Nat /\ D \in SUBSET (1 .. Len(ss))
  OBVIOUS
<1>2. /\ kept \in Seq(S) /\ Len(kept) = Cardinality(P)
      /\ \A u : Cardinality(Access!Of(kept, u)) = Cardinality(P \cap Access!Of(ss, u))
  BY AtKeeps
<1> HIDE DEF kept
<1>3. IsFiniteSet(D) /\ Cardinality(D) = Len(ss)
  <2>1. /\ IsFiniteSet(1 .. Len(ss))
        /\ Cardinality(1 .. Len(ss)) = IF 1 > Len(ss) THEN 0 ELSE Len(ss) - 1 + 1
    BY <1>1, FS_Interval
  <2> HIDE DEF D
  <2> QED
    BY <1>1, <2>1
<1>4. P \in SUBSET D
  OBVIOUS
<1>5. Cardinality(P) \in Nat /\ Cardinality(P) <= Len(ss)
  BY <1>3, <1>4, FS_Subset, FS_CardinalityType
<1>6. ASSUME NEW u
      PROVE  /\ Cardinality(Access!Of(kept, u)) \in Nat /\ Cardinality(Access!Of(ss, u)) \in Nat
             /\ Cardinality(Access!Of(kept, u)) <= Cardinality(Access!Of(ss, u))
  <2> DEFINE A == Access!Of(ss, u)
             B == P \cap A
  <2>1. A \in SUBSET D
    BY DEF Access!Of
  <2> HIDE DEF D, A
  <2>2. IsFiniteSet(A) /\ Cardinality(A) \in Nat
    BY <1>3, <2>1, FS_Subset, FS_CardinalityType
  <2>3. B \in SUBSET A
    OBVIOUS
  <2>4. Cardinality(B) \in Nat /\ Cardinality(B) <= Cardinality(A)
    BY <2>2, <2>3, FS_Subset, FS_CardinalityType
  <2> QED
    BY <1>2, <2>2, <2>4 DEF A
<1> QED
  BY <1>1, <1>2, <1>5, <1>6 DEF kept

Latest(M, n) == {i \in M : Cardinality({j \in M : j >= i}) < n}

\* Of the positions M those with fewer than n not below them are fewer than n.
LEMMA LastFew ==
  ASSUME NEW m \in Nat, NEW M \in SUBSET (1 .. m), NEW n \in Nat \ {0}
  PROVE  Cardinality(Latest(M, n)) \in Nat /\ Cardinality(Latest(M, n)) <= n - 1
<1> DEFINE T == Latest(M, n)
<1>1. T \in SUBSET M /\ T \in SUBSET (1 .. m)
  BY DEF Latest
<1>2. \A i \in T : Cardinality({j \in M : j >= i}) < n
  BY DEF Latest
<1> HIDE DEF T
<1>3. IsFiniteSet(T) /\ Cardinality(T) \in Nat
  BY <1>1, FinitelyMany
<1>4. Cardinality(T) = 0 => Cardinality(T) <= n - 1
  BY <1>3
<1>5. ASSUME Cardinality(T) # 0 PROVE Cardinality(T) <= n - 1
  <2>1. 1 \in 1 .. Cardinality(T)
    BY <1>3, <1>5
  <2>2. PICK i \in T : Cardinality(Below(T, i)) = 1
    BY <1>1, <2>1, RanksCover
  <2>3. T \subseteq Int /\ M \subseteq Int
    BY <1>1
  <2>4. \A j \in T : j >= i
    <3> SUFFICES ASSUME NEW j \in T, j < i PROVE FALSE
      BY <2>3
    <3>1. Cardinality(Below(T, j)) < 1
      BY <1>1, <2>2, RanksGrow
    <3>2. Cardinality(Below(T, j)) \in 1 .. Cardinality(T)
      BY <1>1, RanksCover
    <3> QED
      BY <3>1, <3>2
  <2> DEFINE U == {j \in M : j >= i}
  <2>5. U \in SUBSET M /\ T \in SUBSET U
    BY <1>1, <2>4
  <2>6. Cardinality(U) < n
    BY <1>2, <2>2
  <2> HIDE DEF U
  <2>7. IsFiniteSet(U) /\ Cardinality(U) \in Nat
    BY <2>5, FinitelyMany
  <2>8. Cardinality(T) <= Cardinality(U)
    BY <2>5, <2>7, FS_Subset
  <2> QED
    BY <1>3, <2>6, <2>7, <2>8
<1> QED
  BY <1>3, <1>4, <1>5 DEF T

\* Below a limit there is room for one more.
LEMMA LimitedKeeps ==
  ASSUME NEW S, NEW ss \in Seq(S), NEW mine \in SUBSET DOMAIN ss, NEW limit \in Nat \ {0}
  PROVE  LET kept == Access!Limited(ss, mine, limit) IN
         /\ kept \in Seq(S) /\ Len(kept) \in Nat /\ Len(kept) <= Len(ss)
         /\ \A u : /\ Cardinality(Access!Of(kept, u)) \in Nat
                  /\ Cardinality(Access!Of(kept, u)) <= Cardinality(Access!Of(ss, u))
         /\ \A u : mine = Access!Of(ss, u) => Cardinality(Access!Of(kept, u)) <= limit - 1
         /\ mine = DOMAIN ss => Len(kept) <= limit - 1
<1> DEFINE T == Latest(mine, limit)
           P == {i \in DOMAIN ss : i \in mine => i \in T}
           kept == Access!At(ss, P)
<1>1. Access!Limited(ss, mine, limit) = kept
  <2>1. \A i \in mine : Access!Cardinality({j \in mine : j >= i}) < limit <=> i \in T
    BY AccessCounts DEF Latest
  <2> HIDE DEF T
  <2>2. {i \in DOMAIN ss : i \in mine => Access!Cardinality({j \in mine : j >= i}) < limit} = P
    BY <2>1
  <2> QED
    BY <2>2 DEF Access!Limited
<1>2. Cardinality(T) \in Nat /\ Cardinality(T) <= limit - 1
  <2>1. mine \in SUBSET (1 .. Len(ss)) /\ Len(ss) \in Nat
    OBVIOUS
  <2> QED
    BY <2>1, LastFew
<1>3. T \in SUBSET mine
  BY DEF Latest
<1> HIDE DEF T
<1>4. P \in SUBSET DOMAIN ss /\ P \cap mine = T
  BY <1>3
<1> HIDE DEF P
<1>5. /\ kept \in Seq(S) /\ Len(kept) \in Nat /\ Len(kept) <= Len(ss)
      /\ \A u : /\ Cardinality(Access!Of(kept, u)) \in Nat
               /\ Cardinality(Access!Of(kept, u)) <= Cardinality(Access!Of(ss, u))
  BY <1>4, AtShrinks
<1>6. /\ Len(kept) = Cardinality(P)
      /\ \A u : Cardinality(Access!Of(kept, u)) = Cardinality(P \cap Access!Of(ss, u))
  BY <1>4, AtKeeps
<1> HIDE DEF kept
<1>7. \A u : mine = Access!Of(ss, u) => Cardinality(Access!Of(kept, u)) <= limit - 1
  BY <1>2, <1>4, <1>6
<1>8. mine = DOMAIN ss => Len(kept) <= limit - 1
  <2>1. mine = DOMAIN ss => P = T
    BY <1>4
  <2> QED
    BY <1>2, <1>6, <2>1
<1> QED
  BY <1>1, <1>5, <1>7, <1>8 DEF kept

\* One more at the end counts once, for its user.
LEMMA AppendCounts ==
  ASSUME NEW S, NEW ss \in Seq(S), NEW e \in S, NEW u
  PROVE  /\ Append(ss, e) \in Seq(S) /\ Len(Append(ss, e)) = Len(ss) + 1 /\ Append(ss, e) # <<>>
         /\ Cardinality(Access!Of(Append(ss, e), u)) =
              IF e.user = u THEN Cardinality(Access!Of(ss, u)) + 1 ELSE Cardinality(Access!Of(ss, u))
<1> DEFINE new == Append(ss, e)
           A == Access!Of(ss, u)
<1>1. /\ new \in Seq(S) /\ Len(new) = Len(ss) + 1 /\ new # <<>>
      /\ DOMAIN new = DOMAIN ss \cup {Len(ss) + 1} /\ new[Len(ss) + 1] = e
      /\ \A i \in DOMAIN ss : new[i] = ss[i]
      /\ Len(ss) + 1 \notin DOMAIN ss
  OBVIOUS
<1> HIDE DEF new
<1>2. Access!Of(new, u) = IF e.user = u THEN A \cup {Len(ss) + 1} ELSE A
  BY <1>1 DEF Access!Of
<1>3. A \in SUBSET (1 .. Len(ss)) /\ Len(ss) \in Nat
  BY DEF Access!Of
<1> HIDE DEF A
<1>4. IsFiniteSet(A) /\ Len(ss) + 1 \notin A
  <2>1. A \in SUBSET (1 .. Len(ss)) /\ Len(ss) \in Nat
    BY <1>3
  <2>2. IsFiniteSet(A)
    BY <2>1, FinitelyMany
  <2>3. Len(ss) + 1 \notin 1 .. Len(ss)
    BY <2>1
  <2> QED
    BY <2>1, <2>2, <2>3
<1>5. Cardinality(A \cup {Len(ss) + 1}) = Cardinality(A) + 1
  BY <1>4, FS_AddElement
<1> QED
  BY <1>1, <1>2, <1>5 DEF new, A

-----------------------------------------------------------------------------
(* Set-up, sessions and streams *)

AnyRole == {"admin", "viewer", "any"}
Accounts == [user : Users, role : AnyRole]
LoginSessions == [id : Nat, user : Users]
EventStreams == [session : Nat, user : Users, privileged : BOOLEAN]
Handlers == [kind : {"setup", "login", "create", "update"}, user : Users, role : AnyRole]

AccessTypes ==
  /\ accounts \in Seq(Accounts) /\ sessions \in Seq(LoginSessions) /\ streams \in Seq(EventStreams)
  /\ awaiting \subseteq Handlers /\ logins \in Nat

\* Until there is an account one handler at most sets up, below a fresh claim, and
\* no other handler is there; with the first account the set-up is over for good.
SetupClaimed ==
  /\ setups \in {0, 1} /\ (setups = 0 <=> accounts = <<>>)
  /\ \A h \in awaiting : IF h.kind = "setup" THEN setupClaim = "fresh" /\ accounts = <<>> ELSE accounts # <<>>
  /\ \A h, g \in awaiting : h.kind = "setup" /\ g.kind = "setup" => h = g

\* No user is in a sequence more than so many times.
AtMost(ss, limit) == \A u \in Users : Cardinality(Access!Of(ss, u)) <= limit

Limits == Len(streams) <= AddressStreams /\ AtMost(streams, UserStreams) /\ AtMost(sessions, MaxSessions)

AccessInv == AccessTypes /\ SetupClaimed /\ Limits /\ Access!WritesEntitled

\* Of whom there are fewer than before there are not too many.
LEMMA FewerFit ==
  ASSUME NEW S, NEW ss \in Seq(S), NEW P \in SUBSET DOMAIN ss, NEW limit \in Nat, AtMost(ss, limit)
  PROVE  /\ Access!At(ss, P) \in Seq(S) /\ AtMost(Access!At(ss, P), limit)
         /\ Len(Access!At(ss, P)) \in Nat /\ Len(Access!At(ss, P)) <= Len(ss)
<1> DEFINE kept == Access!At(ss, P)
<1>1. /\ kept \in Seq(S) /\ Len(kept) \in Nat /\ Len(kept) <= Len(ss)
      /\ \A u : /\ Cardinality(Access!Of(kept, u)) \in Nat /\ Cardinality(Access!Of(ss, u)) \in Nat
                /\ Cardinality(Access!Of(kept, u)) <= Cardinality(Access!Of(ss, u))
  BY AtShrinks
<1> HIDE DEF kept
<1>2. AtMost(kept, limit)
  BY <1>1 DEF AtMost
<1> QED
  BY <1>1, <1>2 DEF kept

\* Where there is room for one more of a user, one more fits.
LEMMA OneMoreFits ==
  ASSUME NEW S, NEW ss \in Seq(S), NEW e \in S, NEW limit \in Nat, AtMost(ss, limit),
         Cardinality(Access!Of(ss, e.user)) \in Nat, Cardinality(Access!Of(ss, e.user)) <= limit - 1
  PROVE  Append(ss, e) \in Seq(S) /\ AtMost(Append(ss, e), limit) /\ Len(Append(ss, e)) = Len(ss) + 1
<1>1. Append(ss, e) \in Seq(S) /\ Len(Append(ss, e)) = Len(ss) + 1
  OBVIOUS
<1>2. ASSUME NEW u \in Users PROVE Cardinality(Access!Of(Append(ss, e), u)) <= limit
  <2>1. Cardinality(Access!Of(Append(ss, e), u)) =
          IF e.user = u THEN Cardinality(Access!Of(ss, u)) + 1 ELSE Cardinality(Access!Of(ss, u))
    BY AppendCounts
  <2>2. Cardinality(Access!Of(ss, u)) <= limit
    BY DEF AtMost
  <2> QED
    BY <2>1, <2>2
<1> QED
  BY <1>1, <1>2 DEF AtMost

\* The entries of the set-up agree whatever becomes of sessions and streams.
LEMMA SetupStays ==
  ASSUME SetupClaimed, UNCHANGED <<accounts, setups, setupClaim>>, awaiting' \subseteq awaiting
  PROVE  SetupClaimed'
<1>1. accounts' = accounts /\ setups' = setups /\ setupClaim' = setupClaim /\ \A h \in awaiting' : h \in awaiting
  OBVIOUS
<1> QED
  BY <1>1 DEF SetupClaimed

\* Limits that are numbers.
LEMMA LimitsAreNumbers ==
  /\ MaxSessions \in Nat \ {0} /\ UserStreams \in Nat \ {0} /\ AddressStreams \in Nat \ {0}
  BY ArtifactsAssumption

\* setup()
LEMMA SetupKeeps ==
  ASSUME AccessInv, NEW u \in Users, Access!Setup(u)
  PROVE  AccessInv'
<1>0. AccessTypes /\ SetupClaimed /\ Limits
  BY DEF AccessInv
<1>1. UNCHANGED <<accounts, setups, sessions, logins, streams>> /\ written' = {}
  BY DEF Access!Setup, Access!Quiet
<1>2. Limits' /\ Access!WritesEntitled'
  BY <1>0, <1>1 DEF Limits, AtMost, Access!Of, Access!WritesEntitled
<1> DEFINE h == [kind |-> "setup", user |-> u, role |-> "admin"]
<1>3. h \in Handlers /\ h.kind = "setup"
  BY DEF Handlers, AnyRole
<1> HIDE DEF h
<1>4. \/ awaiting' = awaiting /\ setupClaim' = setupClaim
      \/ awaiting' = awaiting /\ setupClaim' = "none" /\ accounts # <<>>
      \/ /\ setupClaim # "fresh" /\ accounts = <<>>
         /\ setupClaim' = "fresh" /\ awaiting' = awaiting \cup {h}
  BY DEF Access!Setup, Access!Refused, h
<1>5. AccessTypes'
  BY <1>0, <1>1, <1>3, <1>4 DEF AccessTypes
<1>6. SetupClaimed'
  <2>1. CASE awaiting' = awaiting /\ setupClaim' = setupClaim
    BY <1>0, <1>1, <2>1 DEF SetupClaimed
  <2>2. CASE awaiting' = awaiting /\ setupClaim' = "none" /\ accounts # <<>>
    BY <1>0, <1>1, <2>2 DEF SetupClaimed
  <2>3. CASE setupClaim # "fresh" /\ accounts = <<>> /\ setupClaim' = "fresh" /\ awaiting' = awaiting \cup {h}
    <3>1. awaiting = {}
      BY <1>0, <2>3 DEF SetupClaimed
    <3>2. awaiting' = {h}
      BY <2>3, <3>1
    <3> QED
      BY <1>0, <1>1, <1>3, <2>3, <3>2 DEF SetupClaimed
  <2> QED
    BY <1>4, <2>1, <2>2, <2>3
<1> QED
  BY <1>2, <1>5, <1>6 DEF AccessInv

\* Who is known, or is an administrator, has an account.
LEMMA SomeoneIsThere ==
  ASSUME AccessTypes, Access!Admin \/ Access!Names # {}
  PROVE  accounts # <<>>
<1> SUFFICES ASSUME accounts = <<>> PROVE FALSE
  OBVIOUS
<1>1. Access!Names = {}
  BY DEF Access!Names
<1> QED
  BY <1>1 DEF Access!Admin, Access!Valid

\* login(), createUser() and updateUser() begin.
LEMMA AwaitKeeps ==
  ASSUME AccessInv, NEW kind \in {"login", "create", "update"}, NEW u \in Users, NEW role \in AnyRole,
         accounts # <<>>, Access!Await(kind, u, role)
  PROVE  AccessInv'
<1>0. AccessTypes /\ SetupClaimed /\ Limits
  BY DEF AccessInv
<1>1. UNCHANGED <<accounts, setups, setupClaim, sessions, logins, streams>> /\ written' = {}
  BY DEF Access!Await, Access!Quiet
<1>2. Limits' /\ Access!WritesEntitled'
  BY <1>0, <1>1 DEF Limits, AtMost, Access!Of, Access!WritesEntitled
<1> DEFINE h == [kind |-> kind, user |-> u, role |-> role]
<1>3. h \in Handlers /\ h.kind # "setup"
  BY DEF Handlers
<1>4. awaiting' = awaiting \cup {h}
  BY DEF Access!Await
<1> HIDE DEF h
<1>5. AccessTypes'
  BY <1>0, <1>1, <1>3, <1>4 DEF AccessTypes
<1>6. SetupClaimed'
  BY <1>0, <1>1, <1>3, <1>4 DEF SetupClaimed
<1> QED
  BY <1>2, <1>5, <1>6 DEF AccessInv

\* After room is made for a user, one more of the user fits.
LEMMA RoomIsMade ==
  ASSUME NEW S, NEW ss \in Seq(S), NEW limit \in Nat \ {0}, AtMost(ss, limit), NEW e \in S, e.user \in Users
  PROVE  LET room == Access!Limited(ss, Access!Of(ss, e.user), limit) IN
         /\ room \in Seq(S) /\ Len(room) \in Nat /\ Len(room) <= Len(ss) /\ AtMost(room, limit)
         /\ Append(room, e) \in Seq(S) /\ AtMost(Append(room, e), limit)
<1> DEFINE mine == Access!Of(ss, e.user)
           room == Access!Limited(ss, mine, limit)
<1>1. mine \in SUBSET DOMAIN ss
  BY DEF Access!Of
<1>2. mine = Access!Of(ss, e.user)
  OBVIOUS
<1> HIDE DEF mine
<1>3. /\ room \in Seq(S) /\ Len(room) \in Nat /\ Len(room) <= Len(ss)
      /\ \A u : /\ Cardinality(Access!Of(room, u)) \in Nat
               /\ Cardinality(Access!Of(room, u)) <= Cardinality(Access!Of(ss, u))
      /\ \A u : mine = Access!Of(ss, u) => Cardinality(Access!Of(room, u)) <= limit - 1
  BY <1>1, LimitedKeeps
<1> HIDE DEF room
<1>a. \A u : Cardinality(Access!Of(room, u)) \in Nat
  BY <1>3
<1>b. \A u : Cardinality(Access!Of(room, u)) <= Cardinality(Access!Of(ss, u))
  BY <1>3
<1>c. Cardinality(Access!Of(room, e.user)) <= limit - 1
  BY <1>2, <1>3
<1>4. \A u : Cardinality(Access!Of(ss, u)) \in Nat
  BY <1>1, AtShrinks
<1>5. AtMost(room, limit)
  BY <1>3, <1>4 DEF AtMost
<1>6. Append(room, e) \in Seq(S) /\ AtMost(Append(room, e), limit)
  BY <1>2, <1>3, <1>5, OneMoreFits
<1> QED
  BY <1>3, <1>5, <1>6 DEF room, mine

\* createSession() makes room first.
LEMMA CreateSessionFits ==
  ASSUME AccessInv, NEW u \in Users, Access!CreateSession(u)
  PROVE  sessions' \in Seq(LoginSessions) /\ AtMost(sessions', MaxSessions) /\ logins' \in Nat
<1> DEFINE s == [id |-> logins + 1, user |-> u]
<1>1. /\ sessions \in Seq(LoginSessions) /\ AtMost(sessions, MaxSessions) /\ logins \in Nat
      /\ MaxSessions \in Nat \ {0}
  BY LimitsAreNumbers DEF AccessInv, AccessTypes, Limits
<1>2. s \in LoginSessions /\ s.user = u
  BY <1>1 DEF LoginSessions
<1>3. logins' = logins + 1 /\ sessions' = Append(Access!Limited(sessions, Access!Of(sessions, s.user), MaxSessions), s)
  BY <1>2 DEF Access!CreateSession, Access!EnforceLoginSessionLimit
<1> HIDE DEF s
<1> QED
  BY <1>1, <1>2, <1>3, RoomIsMade

\* The statements after the await.
LEMMA ResumeKeeps ==
  ASSUME AccessInv, NEW h \in awaiting, Access!Resume(h)
  PROVE  AccessInv'
<1>0. AccessTypes /\ SetupClaimed /\ Limits
  BY DEF AccessInv
<1>1. /\ h \in Handlers /\ h.user \in Users /\ h.role \in AnyRole
      /\ h.kind \in {"setup", "login", "create", "update"}
  BY <1>0 DEF AccessTypes, Handlers
<1>2. awaiting' = awaiting \ {h} /\ written' = {} /\ streams' = streams
  BY DEF Access!Resume, Access!Quiet
<1>3. Access!WritesEntitled'
  BY <1>2 DEF Access!WritesEntitled
<1>4. \A u : Cardinality(Access!Of(streams, u))' = Cardinality(Access!Of(streams, u))
  BY <1>2 DEF Access!Of
<1>5. Len(streams') <= AddressStreams /\ AtMost(streams', UserStreams)
  BY <1>0, <1>2 DEF Limits
<1>6. /\ sessions' \in Seq(LoginSessions) /\ AtMost(sessions', MaxSessions) /\ logins' \in Nat
  <2>1. CASE Access!CreateSession(h.user)
    BY <1>1, <2>1, CreateSessionFits
  <2>2. CASE sessions' = sessions /\ logins' = logins
    BY <1>0, <2>2 DEF AccessTypes, Limits
  <2> QED
    BY <2>1, <2>2 DEF Access!Resume
<1>7. Limits'
  BY <1>5, <1>6 DEF Limits, AtMost
<1>8. accounts' \in Seq(Accounts) /\ SetupClaimed'
  <2>0. accounts \in Seq(Accounts)
    BY <1>0 DEF AccessTypes
  <2>1. ASSUME NEW role \in AnyRole
        PROVE  Append(accounts, [user |-> h.user, role |-> role]) \in Seq(Accounts) \ {<<>>}
    <3>1. [user |-> h.user, role |-> role] \in Accounts
      BY <1>1 DEF Accounts
    <3> QED
      BY <2>0, <3>1
  <2>2. CASE h.kind = "setup"
    <3>1. accounts' = Append(accounts, [user |-> h.user, role |-> "admin"]) /\ setups' = setups + 1 /\ setupClaim' = "none"
      BY <2>2 DEF Access!Resume
    <3>2. accounts' \in Seq(Accounts) /\ accounts' # <<>>
      BY <2>1, <3>1 DEF AnyRole
    <3>3. setups = 0 /\ awaiting' = {}
      <4>1. accounts = <<>> /\ setups = 0
        BY <1>0, <2>2 DEF SetupClaimed
      <4>2. \A g \in awaiting : g = h
        BY <1>0, <2>2, <4>1 DEF SetupClaimed
      <4> QED
        BY <1>2, <4>1, <4>2
    <3>4. setups' = 1
      BY <3>1, <3>3
    <3> QED
      BY <3>2, <3>3, <3>4 DEF SetupClaimed
  <2>3. ASSUME h.kind # "setup" PROVE accounts' \in Seq(Accounts) \ {<<>>} /\ UNCHANGED <<setups, setupClaim>>
    <3>1. accounts # <<>>
      BY <1>0, <2>3 DEF SetupClaimed
    <3>2. CASE h.kind = "login"
      BY <2>0, <3>1, <3>2 DEF Access!Resume
    <3>3. CASE h.kind = "create"
      <4>1. accounts' = accounts \/ accounts' = Append(accounts, [user |-> h.user, role |-> h.role])
        BY <3>3 DEF Access!Resume
      <4>2. UNCHANGED <<setups, setupClaim>>
        BY <3>3 DEF Access!Resume
      <4> QED
        BY <1>1, <2>0, <2>1, <3>1, <4>1, <4>2
    <3>4. CASE h.kind = "update"
      <4>1. accounts' = [i \in DOMAIN accounts |-> IF accounts[i].user = h.user
                                                   THEN [accounts[i] EXCEPT !.role = h.role] ELSE accounts[i]]
        BY <3>4 DEF Access!Resume
      <4>2. UNCHANGED <<setups, setupClaim>>
        BY <3>4 DEF Access!Resume
      <4>3. \A i \in DOMAIN accounts : accounts[i] \in Accounts /\ [accounts[i] EXCEPT !.role = h.role] \in Accounts
        <5> SUFFICES ASSUME NEW i \in DOMAIN accounts
                     PROVE  accounts[i] \in Accounts /\ [accounts[i] EXCEPT !.role = h.role] \in Accounts
          OBVIOUS
        <5>1. accounts[i] \in Accounts
          BY <2>0
        <5>2. \A a \in Accounts, role \in AnyRole : [a EXCEPT !.role = role] \in Accounts
          BY DEF Accounts
        <5> QED
          BY <1>1, <5>1, <5>2
      <4>4. accounts' \in [1 .. Len(accounts) -> Accounts] /\ Len(accounts) \in Nat \ {0}
        BY <2>0, <3>1, <4>1, <4>3
      <4>5. accounts' \in Seq(Accounts) /\ accounts' # <<>>
        BY <4>4
      <4> QED
        BY <4>2, <4>5
    <3> QED
      BY <1>1, <2>3, <3>2, <3>3, <3>4
  <2>4. CASE h.kind # "setup"
    <3>1. accounts # <<>>
      BY <1>0, <2>4 DEF SetupClaimed
    <3> QED
      BY <1>0, <1>2, <2>3, <2>4, <3>1 DEF SetupClaimed
  <2> QED
    BY <2>2, <2>4
<1>9. AccessTypes'
  BY <1>0, <1>2, <1>6, <1>8 DEF AccessTypes
<1> QED
  BY <1>3, <1>7, <1>8, <1>9 DEF AccessInv

\* An empty sequence has nobody.
LEMMA NobodyFits ==
  ASSUME NEW S, NEW limit \in Nat
  PROVE  <<>> \in Seq(S) /\ Len(<<>>) = 0 /\ AtMost(<<>>, limit)
<1>1. \A u : Access!Of(<<>>, u) = {}
  BY DEF Access!Of
<1>2. \A u : Cardinality(Access!Of(<<>>, u)) = 0
  BY <1>1, FS_EmptySet
<1> QED
  BY <1>2 DEF AtMost

\* A step that ends sessions or streams, or opens one that fits, and writes to whom it may.
LEMMA StepFits ==
  ASSUME AccessInv, UNCHANGED <<accounts, setups, setupClaim, logins>>, awaiting' = awaiting \/ awaiting' = {},
         sessions' \in Seq(LoginSessions), AtMost(sessions', MaxSessions),
         streams' \in Seq(EventStreams), AtMost(streams', UserStreams), Len(streams') <= AddressStreams,
         Access!WritesEntitled'
  PROVE  AccessInv'
<1>0. AccessTypes /\ SetupClaimed
  BY DEF AccessInv
<1>1. SetupClaimed'
  <2>1. awaiting' \subseteq awaiting /\ UNCHANGED <<accounts, setups, setupClaim>>
    OBVIOUS
  <2> QED
    BY <1>0, <2>1, SetupStays
<1>2. AccessTypes'
  BY <1>0 DEF AccessTypes
<1>3. Limits'
  BY DEF Limits, AtMost
<1> QED
  BY <1>1, <1>2, <1>3 DEF AccessInv

\* Nothing written is written to nobody.
LEMMA QuietIsEntitled == Access!Quiet => Access!WritesEntitled'
  BY DEF Access!Quiet, Access!WritesEntitled

\* What fits, of an invariant state.
LEMMA ItFits ==
  ASSUME AccessInv
  PROVE  /\ sessions \in Seq(LoginSessions) /\ AtMost(sessions, MaxSessions) /\ MaxSessions \in Nat
         /\ streams \in Seq(EventStreams) /\ AtMost(streams, UserStreams) /\ UserStreams \in Nat
         /\ Len(streams) \in Nat /\ Len(streams) <= AddressStreams /\ AddressStreams \in Nat
<1>1. AccessTypes /\ Limits
  BY DEF AccessInv
<1>2. streams \in Seq(EventStreams)
  BY <1>1 DEF AccessTypes
<1>3. Len(streams) \in Nat
  BY <1>2
<1> QED
  BY <1>1, <1>2, <1>3, LimitsAreNumbers DEF AccessTypes, Limits

\* Sessions, or streams, without some.
LEMMA SessionsEnd ==
  ASSUME AccessInv, NEW P, sessions' = Access!Without(sessions, P)
  PROVE  sessions' \in Seq(LoginSessions) /\ AtMost(sessions', MaxSessions)
<1>1. sessions' = Access!At(sessions, DOMAIN sessions \ P)
  BY DEF Access!Without
<1>2. DOMAIN sessions \ P \in SUBSET DOMAIN sessions
  OBVIOUS
<1> QED
  BY <1>1, <1>2, ItFits, FewerFit

LEMMA StreamsEnd ==
  ASSUME AccessInv, NEW P, streams' = Access!Without(streams, P)
  PROVE  streams' \in Seq(EventStreams) /\ AtMost(streams', UserStreams) /\ Len(streams') <= AddressStreams
<1>1. streams' = Access!At(streams, DOMAIN streams \ P)
  BY DEF Access!Without
<1>2. DOMAIN streams \ P \in SUBSET DOMAIN streams
  OBVIOUS
<1>3. /\ streams' \in Seq(EventStreams) /\ AtMost(streams', UserStreams)
      /\ Len(streams') \in Nat /\ Len(streams') <= Len(streams)
  BY <1>1, <1>2, ItFits, FewerFit
<1> QED
  BY <1>3, ItFits

\* logout(), forceLogoutUser(), forceLogoutLowerRoles(), forceLogoutEveryone(), the
\* end of a session by itself, and of a stream.
LEMMA EndKeeps ==
  ASSUME AccessInv,
         \/ \E id \in 1 .. MaxLogins : Access!Expire(id) \/ Access!Logout(id)
         \/ \E u \in Users : Access!ForceLogoutUser(u)
         \/ Access!ForceLogoutLowerRoles \/ Access!ForceLogoutEveryone
         \/ \E i \in DOMAIN streams : Access!Disconnect(i)
  PROVE  AccessInv'
<1>1. UNCHANGED <<accounts, setups, setupClaim, awaiting, logins>> /\ Access!Quiet
  BY DEF Access!Expire, Access!Logout, Access!ForceLogoutUser, Access!ForceLogoutLowerRoles,
         Access!ForceLogoutEveryone, Access!Disconnect, Access!Idle
<1>2. sessions' \in Seq(LoginSessions) /\ AtMost(sessions', MaxSessions)
  <2>1. CASE \E P : sessions' = Access!Without(sessions, P)
    BY <2>1, SessionsEnd
  <2>2. CASE sessions' = <<>>
    BY <2>2, ItFits, NobodyFits
  <2>3. CASE sessions' = sessions
    BY <2>3, ItFits
  <2> QED
    BY <2>1, <2>2, <2>3
       DEF Access!Expire, Access!Logout, Access!ForceLogoutUser, Access!ForceLogoutLowerRoles,
           Access!ForceLogoutEveryone, Access!Disconnect, Access!Ends
<1>3. streams' \in Seq(EventStreams) /\ AtMost(streams', UserStreams) /\ Len(streams') <= AddressStreams
  <2>1. CASE \E P : streams' = Access!Without(streams, P)
    BY <2>1, StreamsEnd
  <2>2. CASE streams' = <<>>
    BY <2>2, ItFits, NobodyFits
  <2>3. CASE streams' = streams
    BY <2>3, ItFits
  <2> QED
    BY <2>1, <2>2, <2>3
       DEF Access!Expire, Access!Logout, Access!ForceLogoutUser, Access!ForceLogoutLowerRoles,
           Access!ForceLogoutEveryone, Access!Disconnect, Access!Closes
<1> QED
  BY <1>1, <1>2, <1>3, StepFits, QuietIsEntitled

\* The process dies.
LEMMA DeathKeeps == ASSUME AccessInv, Access!Die PROVE AccessInv'
<1>1. /\ UNCHANGED <<accounts, setups, setupClaim, logins>> /\ sessions' = sessions
      /\ awaiting' = {} /\ streams' = <<>> /\ Access!Quiet
  BY DEF Access!Die
<1>2. streams' \in Seq(EventStreams) /\ AtMost(streams', UserStreams) /\ Len(streams') <= AddressStreams
  BY <1>1, ItFits, NobodyFits
<1>3. sessions' \in Seq(LoginSessions) /\ AtMost(sessions', MaxSessions)
  BY <1>1, ItFits
<1> QED
  BY <1>1, <1>2, <1>3, StepFits, QuietIsEntitled

\* The claim of a set-up that has ended without an account is stale after a while.
LEMMA ClaimAgesKeeps == ASSUME AccessInv, Access!ClaimAges PROVE AccessInv'
<1>0. AccessTypes /\ SetupClaimed /\ Limits
  BY DEF AccessInv
<1>1. /\ UNCHANGED <<accounts, setups, awaiting, sessions, logins, streams>> /\ Access!Quiet
      /\ \A h \in awaiting : h.kind # "setup"
  BY DEF Access!ClaimAges
<1>2. SetupClaimed'
  BY <1>0, <1>1 DEF SetupClaimed
<1>3. AccessTypes' /\ Limits'
  BY <1>0, <1>1 DEF AccessTypes, Limits, AtMost, Access!Of
<1> QED
  BY <1>1, <1>2, <1>3, QuietIsEntitled DEF AccessInv

\* deleteUser() leaves the first account.
LEMMA DeleteUserKeeps == ASSUME AccessInv, NEW u \in Users, Access!DeleteUser(u) PROVE AccessInv'
<1>0. AccessTypes /\ SetupClaimed /\ Limits /\ accounts \in Seq(Accounts)
  BY DEF AccessInv, AccessTypes
<1>1. /\ UNCHANGED <<setups, setupClaim, awaiting, sessions, logins, streams>> /\ Access!Quiet
      /\ accounts' = Access!Without(accounts, Access!Of(accounts, u)) /\ Access!Admin /\ ~Access!IsPrimary(u)
  BY DEF Access!DeleteUser
<1>2. accounts # <<>>
  BY <1>0, <1>1, SomeoneIsThere
<1> DEFINE P == DOMAIN accounts \ Access!Of(accounts, u)
<1>3. P \in SUBSET DOMAIN accounts /\ 1 \in P
  BY <1>0, <1>1, <1>2 DEF Access!IsPrimary, Access!Of
<1>4. accounts' = Access!At(accounts, P)
  BY <1>1 DEF Access!Without
<1> HIDE DEF P
<1>5. accounts' \in Seq(Accounts) /\ accounts' # <<>>
  BY <1>0, <1>3, <1>4, AtKeeps
<1>6. SetupClaimed'
  BY <1>0, <1>1, <1>2, <1>5 DEF SetupClaimed
<1>7. AccessTypes' /\ Limits'
  BY <1>0, <1>1, <1>5 DEF AccessTypes, Limits, AtMost, Access!Of
<1> QED
  BY <1>1, <1>6, <1>7, QuietIsEntitled DEF AccessInv

\* Who is entitled stays so while accounts and sessions do.
LEMMA EntitledNow ==
  ASSUME accounts' = accounts, sessions' = sessions,
         \A w \in written' : Access!Valid(w.to.session) /\ (w.privileged => Access!RoleOf(w.to.user) = "admin")
  PROVE  Access!WritesEntitled'
<1>1. \A id : Access!Valid(id)' <=> Access!Valid(id)
  BY DEF Access!Valid, Access!Names, Access!Range
<1>2. \A u : Access!RoleOf(u)' = Access!RoleOf(u)
  BY DEF Access!RoleOf, Access!Range
<1> QED
  BY <1>1, <1>2 DEF Access!WritesEntitled

\* publish() validates before it writes.
LEMMA PublishKeeps ==
  ASSUME AccessInv, NEW privileged \in BOOLEAN, Access!Publish(privileged)
  PROVE  AccessInv'
<1>1. UNCHANGED <<accounts, setups, setupClaim, awaiting, sessions, logins>> /\ Access!Write(privileged)
  BY DEF Access!Publish
<1> DEFINE P == {i \in DOMAIN streams : Access!Valid(streams[i].session)}
           standing == Access!At(streams, P)
           valid == [i \in DOMAIN standing |-> Access!Validated(standing[i])]
<1>2. /\ streams' = valid
      /\ written' = {[to |-> s, privileged |-> privileged] : s \in {t \in Access!Range(valid) : privileged => t.privileged}}
  BY <1>1 DEF Access!Write, Access!Standing
<1>3. P \in SUBSET DOMAIN streams /\ \A i \in P : Access!Valid(streams[i].session)
  OBVIOUS
<1> HIDE DEF P
<1>4. standing \in Seq(EventStreams) /\ \A k \in DOMAIN standing : \E i \in P : standing[k] = streams[i]
  BY <1>3, ItFits, AtKeeps
<1>5. AtMost(standing, UserStreams) /\ Len(standing) \in Nat /\ Len(standing) <= Len(streams)
  BY <1>3, ItFits, FewerFit
<1> HIDE DEF standing
<1>6. ASSUME NEW k \in DOMAIN standing
      PROVE  /\ valid[k] \in EventStreams /\ valid[k].user = standing[k].user
             /\ Access!Valid(valid[k].session)
             /\ valid[k].privileged => Access!RoleOf(valid[k].user) = "admin"
  <2>1. PICK s \in EventStreams : s = standing[k]
    BY <1>4
  <2>2. Access!Valid(s.session)
    BY <1>3, <1>4, <2>1
  <2>3. valid[k] = [s EXCEPT !.privileged = s.privileged /\ Access!RoleOf(s.user) = "admin"]
    BY <2>1 DEF Access!Validated
  <2> DEFINE allowed == s.privileged /\ Access!RoleOf(s.user) = "admin"
             new == [s EXCEPT !.privileged = allowed]
  <2>4. allowed \in BOOLEAN /\ (allowed => Access!RoleOf(s.user) = "admin")
    BY DEF EventStreams
  <2> HIDE DEF allowed
  <2>5. new \in EventStreams /\ new.user = s.user /\ new.session = s.session /\ new.privileged = allowed
    BY <2>4 DEF EventStreams
  <2>6. valid[k] = new
    BY <2>3 DEF allowed
  <2> HIDE DEF new, valid
  <2> QED
    BY <2>1, <2>2, <2>4, <2>5, <2>6
<1>7. DOMAIN valid = DOMAIN standing
  OBVIOUS
<1>8. valid \in Seq(EventStreams) /\ Len(valid) = Len(standing)
  <2>1. DOMAIN standing = 1 .. Len(standing)
    BY <1>4
  <2>2. valid \in [1 .. Len(standing) -> EventStreams]
    BY <1>6, <2>1
  <2> HIDE DEF valid
  <2> QED
    BY <1>5, <2>2
<1> HIDE DEF valid
<1>9. AtMost(valid, UserStreams)
  <2>1. \A u : Access!Of(valid, u) = Access!Of(standing, u)
    BY <1>6, <1>7 DEF Access!Of
  <2> QED
    BY <1>5, <2>1 DEF AtMost
<1>10. Access!WritesEntitled'
  <2>1. ASSUME NEW w \in written'
        PROVE  Access!Valid(w.to.session) /\ (w.privileged => Access!RoleOf(w.to.user) = "admin")
    <3>1. PICK t \in Access!Range(valid) : w = [to |-> t, privileged |-> privileged] /\ (privileged => t.privileged)
      BY <1>2
    <3>2. PICK k \in DOMAIN valid : t = valid[k]
      BY DEF Access!Range
    <3> QED
      BY <1>6, <1>7, <3>1, <3>2
  <2> QED
    BY <1>1, <2>1, EntitledNow
<1>11. streams' \in Seq(EventStreams) /\ AtMost(streams', UserStreams) /\ Len(streams') <= AddressStreams
  BY <1>2, <1>5, <1>8, <1>9, ItFits
<1>12. sessions' \in Seq(LoginSessions) /\ AtMost(sessions', MaxSessions)
  BY <1>1, ItFits
<1> QED
  BY <1>1, <1>10, <1>11, <1>12, StepFits

\* connect() makes room for the user and then for the address.
LEMMA ConnectKeeps ==
  ASSUME AccessInv, NEW id \in 1 .. MaxLogins, Access!Connect(id)
  PROVE  AccessInv'
<1> DEFINE u == (CHOOSE s \in Access!Range(sessions) : s.id = id).user
           e == [session |-> id, user |-> u, privileged |-> Access!RoleOf(u) = "admin"]
           own == Access!Limited(streams, Access!Of(streams, e.user), UserStreams)
           room == Access!Limited(own, DOMAIN own, AddressStreams)
<1>1. /\ UNCHANGED <<accounts, setups, setupClaim, awaiting, sessions, logins>> /\ Access!Valid(id)
      /\ streams' = Append(room, e) /\ written' = {[to |-> e, privileged |-> e.privileged]}
  BY DEF Access!Connect
<1>2. u \in Users
  <2>1. sessions \in Seq(LoginSessions)
    BY ItFits
  <2>2. \E s \in Access!Range(sessions) : s.id = id
    BY <1>1 DEF Access!Valid
  <2>3. \A s \in Access!Range(sessions) : s.user \in Users
    <3> SUFFICES ASSUME NEW s \in Access!Range(sessions) PROVE s.user \in Users
      OBVIOUS
    <3>1. PICK i \in DOMAIN sessions : s = sessions[i]
      BY DEF Access!Range
    <3>2. s \in LoginSessions
      BY <2>1, <3>1
    <3> QED
      BY <3>2 DEF LoginSessions
  <2> QED
    BY <2>2, <2>3
<1> HIDE DEF u
<1>3. /\ e \in EventStreams /\ e.session = id /\ e.user \in Users
      /\ e.privileged => Access!RoleOf(e.user) = "admin"
  <2>1. PICK allowed \in BOOLEAN : allowed = (Access!RoleOf(u) = "admin")
    OBVIOUS
  <2>2. e = [session |-> id, user |-> u, privileged |-> allowed]
    BY <2>1
  <2>3. id \in Nat
    OBVIOUS
  <2> HIDE DEF e
  <2>4. e \in EventStreams /\ e.session = id /\ e.user = u /\ e.privileged = allowed
    BY <1>2, <2>2, <2>3 DEF EventStreams
  <2> QED
    BY <1>2, <2>1, <2>4
<1> HIDE DEF e
<1>4. /\ own \in Seq(EventStreams) /\ AtMost(own, UserStreams)
      /\ AtMost(Append(own, e), UserStreams)
  BY <1>3, ItFits, LimitsAreNumbers, RoomIsMade
<1> HIDE DEF own
<1>5. /\ room \in Seq(EventStreams) /\ Len(room) \in Nat
      /\ \A v : Cardinality(Access!Of(room, v)) \in Nat
      /\ \A v : Cardinality(Access!Of(room, v)) <= Cardinality(Access!Of(own, v))
      /\ Len(room) <= AddressStreams - 1
  <2>1. DOMAIN own \in SUBSET DOMAIN own
    OBVIOUS
  <2> QED
    BY <1>4, <2>1, LimitsAreNumbers, LimitedKeeps
<1> HIDE DEF room
<1>6. AtMost(Append(room, e), UserStreams)
  <2> SUFFICES ASSUME NEW v \in Users PROVE Cardinality(Access!Of(Append(room, e), v)) <= UserStreams
    BY DEF AtMost
  <2>1. Cardinality(Access!Of(Append(own, e), v)) <= UserStreams
    BY <1>4 DEF AtMost
  <2>2. Cardinality(Access!Of(Append(own, e), v)) =
          IF e.user = v THEN Cardinality(Access!Of(own, v)) + 1 ELSE Cardinality(Access!Of(own, v))
    BY <1>3, <1>4, AppendCounts
  <2>3. Cardinality(Access!Of(Append(room, e), v)) =
          IF e.user = v THEN Cardinality(Access!Of(room, v)) + 1 ELSE Cardinality(Access!Of(room, v))
    BY <1>3, <1>5, AppendCounts
  <2>4. Cardinality(Access!Of(own, v)) \in Nat
    <3>1. {} \in SUBSET DOMAIN own
      OBVIOUS
    <3> QED
      BY <1>4, <3>1, AtShrinks
  <2>5. /\ Cardinality(Access!Of(room, v)) \in Nat
        /\ Cardinality(Access!Of(room, v)) <= Cardinality(Access!Of(own, v))
    BY <1>5
  <2> QED
    BY <2>1, <2>2, <2>3, <2>4, <2>5, LimitsAreNumbers
<1>7. streams' \in Seq(EventStreams) /\ AtMost(streams', UserStreams) /\ Len(streams') <= AddressStreams
  <2>1. Append(room, e) \in Seq(EventStreams) /\ Len(Append(room, e)) = Len(room) + 1
    BY <1>3, <1>5
  <2> QED
    BY <1>1, <1>5, <1>6, <2>1, LimitsAreNumbers
<1>8. Access!WritesEntitled'
  <2>1. \A w \in written' : Access!Valid(w.to.session) /\ (w.privileged => Access!RoleOf(w.to.user) = "admin")
    BY <1>1, <1>3
  <2> QED
    BY <1>1, <2>1, EntitledNow
<1>9. sessions' \in Seq(LoginSessions) /\ AtMost(sessions', MaxSessions)
  BY <1>1, ItFits
<1> QED
  BY <1>1, <1>7, <1>8, <1>9, StepFits

\* Every step keeps the invariant.
LEMMA AccessStep == AccessInv /\ [ArtifactsNext]_<<rest, people, side>> => AccessInv'
<1> SUFFICES ASSUME AccessInv, [ArtifactsNext]_<<rest, people, side>> PROVE AccessInv'
  OBVIOUS
<1>1. ASSUME UNCHANGED access PROVE AccessInv'
  <2>1. /\ UNCHANGED <<accounts, setups, setupClaim, logins>> /\ awaiting' = awaiting
        /\ sessions' = sessions /\ streams' = streams /\ written' = written
    BY <1>1 DEF access
  <2>2. Access!WritesEntitled'
    <3>1. \A w \in written' : Access!Valid(w.to.session) /\ (w.privileged => Access!RoleOf(w.to.user) = "admin")
      BY <2>1 DEF AccessInv, Access!WritesEntitled
    <3> QED
      BY <2>1, <3>1, EntitledNow
  <2> QED
    BY <2>1, <2>2, ItFits, StepFits
<1>2. ASSUME Access!SessionsNext PROVE AccessInv'
  <2>1. ASSUME NEW u \in Users, Access!Login(u) PROVE AccessInv'
    <3>1. Access!Names # {} /\ Access!Await("login", u, "any")
      BY <2>1 DEF Access!Login
    <3> QED
      BY <3>1, SomeoneIsThere, AwaitKeeps DEF AccessInv, AnyRole
  <2>2. ASSUME NEW u \in Users, NEW role \in {"admin", "viewer"}, Access!CreateUser(u, role) PROVE AccessInv'
    <3>1. Access!Admin /\ Access!Await("create", u, role)
      BY <2>2 DEF Access!CreateUser
    <3> QED
      BY <3>1, SomeoneIsThere, AwaitKeeps DEF AccessInv, AnyRole
  <2>3. ASSUME NEW u \in Users, NEW role \in {"admin", "viewer"}, Access!UpdateUser(u, role) PROVE AccessInv'
    <3>1. Access!Admin /\ Access!Await("update", u, role)
      BY <2>3 DEF Access!UpdateUser
    <3> QED
      BY <3>1, SomeoneIsThere, AwaitKeeps DEF AccessInv, AnyRole
  <2> QED
    BY <1>2, <2>1, <2>2, <2>3, SetupKeeps, ResumeKeeps, DeleteUserKeeps, ClaimAgesKeeps, DeathKeeps, EndKeeps,
       PublishKeeps, ConnectKeeps DEF Access!SessionsNext
<1>3. UNCHANGED access \/ Access!SessionsNext
  BY DEF ArtifactsNext, rest, people
<1> QED
  BY <1>1, <1>2, <1>3

\* At a start there is nobody.
LEMMA AccessStart == Access!SessionsInit => AccessInv
<1> SUFFICES ASSUME Access!SessionsInit PROVE AccessInv
  OBVIOUS
<1>1. /\ accounts = <<>> /\ setups = 0 /\ awaiting = {} /\ sessions = <<>> /\ logins = 0
      /\ streams = <<>> /\ written = {}
  BY DEF Access!SessionsInit
<1>2. AccessTypes /\ SetupClaimed /\ Access!WritesEntitled
  BY <1>1 DEF AccessTypes, SetupClaimed, Access!WritesEntitled
<1>3. Limits
  BY <1>1, LimitsAreNumbers, NobodyFits DEF Limits
<1> QED
  BY <1>2, <1>3 DEF AccessInv

\* One set-up at most makes the first administrator, nobody has more sessions or streams
\* than the limits say, and an event is written to valid sessions only, what administrators
\* may see to administrators only (auth/auth.service.ts, system/realtime.service.ts).
THEOREM SessionsCorrect == ArtifactsSpec => []SessionsAgree
<1>1. ArtifactsInit => AccessInv
  BY AccessStart DEF ArtifactsInit
<1>2. AccessInv => SessionsAgree
  <2> SUFFICES ASSUME AccessInv PROVE Access!SetupOnce /\ Access!LimitsKept /\ Access!WritesEntitled
    BY DEF SessionsAgree, Access!SessionsAgree
  <2>1. Access!SetupOnce
    BY DEF AccessInv, SetupClaimed, Access!SetupOnce
  <2>2. Access!LimitsKept
    BY AccessCounts DEF AccessInv, Limits, AtMost, Access!LimitsKept
  <2> QED
    BY <2>1, <2>2 DEF AccessInv
<1> QED
  BY <1>1, <1>2, AccessStep, PTL DEF ArtifactsSpec

-----------------------------------------------------------------------------
(* The table of requests by address *)

Entries == [ip : Addresses, count : Nat]
EntriesOf(u) == {u[n] : n \in DOMAIN u}

\* Every address has one entry at most.
OneEach(u) == \A i, j \in DOMAIN u : u[i].ip = u[j].ip => i = j

\* The entries u, the requests m of this minute, and the dropped entries dr agree.
Tallied(u, m, dr) ==
  /\ u \in Seq(Entries) /\ OneEach(u) /\ m \in [Addresses -> Nat]
  /\ \A e \in EntriesOf(u) : e.count <= m[e.ip] /\ ((\A d \in dr : d.ip # e.ip) => e.count = m[e.ip])
  /\ \A a \in Addresses : (\A e \in EntriesOf(u) : e.ip # a) /\ (\A d \in dr : d.ip # a) => m[a] = 0

\* A sequence of whatever it holds.
IsSeq(w) == w \in Seq({w[i] : i \in DOMAIN w})

\* What was written last is what the fingerprint says, and when all has arrived it is shown.
LastIsFingerprint ==
  link.open => IF link.wire = <<>> THEN shown = link.fingerprint ELSE link.wire[Len(link.wire)] = link.fingerprint

PanelInv ==
  /\ Tallied(usage, made, dropped)
  /\ minute \in Nat /\ (trailing # Nothing => trailing.minute \in Nat /\ trailing.minute <= minute)
  /\ Panel!TrailingIsLast
  /\ link = [open |-> link.open, page |-> link.page, fingerprint |-> link.fingerprint, wire |-> link.wire]
  /\ IsSeq(link.wire) /\ LastIsFingerprint

\* A sequence with one more at its end.
LEMMA SeqGrows ==
  ASSUME NEW w, IsSeq(w), NEW x
  PROVE  IsSeq(Append(w, x)) /\ Append(w, x) # <<>> /\ Append(w, x)[Len(Append(w, x))] = x
<1> DEFINE S == {w[i] : i \in DOMAIN w} \cup {x}
           v == Append(w, x)
<1>1. w \in Seq(S)
  <2>1. w \in Seq({w[i] : i \in DOMAIN w})
    BY DEF IsSeq
  <2>2. \A i \in DOMAIN w : w[i] \in S
    OBVIOUS
  <2>3. Len(w) \in Nat /\ DOMAIN w = 1 .. Len(w) /\ w = [i \in 1 .. Len(w) |-> w[i]]
    BY <2>1
  <2> HIDE DEF S
  <2> QED
    BY <2>2, <2>3
<1>2. x \in S
  OBVIOUS
<1> HIDE DEF S
<1>3. v \in Seq(S) /\ v # <<>> /\ v[Len(v)] = x
  BY <1>1, <1>2
<1> HIDE DEF v
<1>4. Len(v) \in Nat /\ DOMAIN v = 1 .. Len(v) /\ v = [i \in 1 .. Len(v) |-> v[i]]
  BY <1>3
<1>5. v \in Seq({v[i] : i \in DOMAIN v})
  <2> DEFINE T == {v[i] : i \in DOMAIN v}
  <2>1. \A i \in 1 .. Len(v) : v[i] \in T
    BY <1>4
  <2> HIDE DEF T
  <2>2. v \in Seq(T)
    BY <1>4, <2>1
  <2> QED
    BY <2>2 DEF T
<1> QED
  BY <1>3, <1>5 DEF v, IsSeq

\* What is left without the first ends as before.
LEMMA SeqShrinks ==
  ASSUME NEW w, IsSeq(w), w # <<>>
  PROVE  /\ IsSeq(Tail(w))
         /\ Tail(w) = <<>> => Head(w) = w[Len(w)]
         /\ Tail(w) # <<>> => Tail(w)[Len(Tail(w))] = w[Len(w)]
<1> DEFINE S == {w[i] : i \in DOMAIN w}
           v == Tail(w)
<1>1. w \in Seq(S)
  BY DEF IsSeq
<1> HIDE DEF S
<1>0. Len(w) \in Nat \ {0} /\ Head(w) = w[1]
  BY <1>1
<1>a. v \in Seq(S) /\ Len(v) = Len(w) - 1 /\ \A i \in 1 .. Len(v) : v[i] = w[i + 1]
  BY <1>1, HeadTailProperties
<1> HIDE DEF v
<1>2. /\ v \in Seq(S) /\ Len(v) = Len(w) - 1 /\ Len(w) \in Nat \ {0}
      /\ \A i \in 1 .. Len(w) - 1 : v[i] = w[i + 1]
      /\ Head(w) = w[1] /\ (v = <<>> <=> Len(v) = 0)
  BY <1>0, <1>a, EmptySeq
<1>3. Len(v) \in Nat /\ DOMAIN v = 1 .. Len(v) /\ v = [i \in 1 .. Len(v) |-> v[i]]
  BY <1>2
<1>4. v \in Seq({v[i] : i \in DOMAIN v})
  <2> DEFINE T == {v[i] : i \in DOMAIN v}
  <2>1. \A i \in 1 .. Len(v) : v[i] \in T
    BY <1>3
  <2> HIDE DEF T
  <2>2. v \in Seq(T)
    BY <1>3, <2>1
  <2> QED
    BY <2>2 DEF T
<1>5. v = <<>> => Head(w) = w[Len(w)]
  <2>1. v = <<>> => Len(w) = 1
    BY ONLY <1>2
  <2> QED
    BY ONLY <1>2, <2>1
<1>6. v # <<>> => v[Len(v)] = w[Len(w)]
  BY <1>2
<1> QED
  BY <1>4, <1>5, <1>6 DEF v, IsSeq

\* A sequence without one of its entries.
LEMMA RemovedAt ==
  ASSUME NEW S, NEW s \in Seq(S), NEW i \in DOMAIN s
  PROVE  LET t == Panel!RemoveAt(s, i) IN
         /\ t \in Seq(S) /\ Len(t) = Len(s) - 1 /\ DOMAIN t = 1 .. Len(s) - 1
         /\ \A n \in 1 .. Len(s) - 1 : t[n] = s[IF n < i THEN n ELSE n + 1]
<1> DEFINE a == SubSeq(s, 1, i - 1)
           b == SubSeq(s, i + 1, Len(s))
           t == a \o b
<1>0. Len(s) \in Nat /\ i \in 1 .. Len(s)
  OBVIOUS
<1>1. /\ a \in Seq(S) /\ Len(a) = i - 1 /\ \A n \in 1 .. i - 1 : a[n] = s[n]
  BY <1>0
<1>2. /\ b \in Seq(S) /\ Len(b) = Len(s) - i /\ \A n \in 1 .. Len(s) - i : b[n] = s[i + n]
  BY <1>0
<1> HIDE DEF a, b
<1>3. /\ t \in Seq(S) /\ Len(t) = Len(a) + Len(b)
      /\ \A n \in 1 .. Len(a) + Len(b) : t[n] = IF n <= Len(a) THEN a[n] ELSE b[n - Len(a)]
  BY <1>1, <1>2, ConcatProperties
<1> HIDE DEF t
<1>4. Len(t) = Len(s) - 1 /\ DOMAIN t = 1 .. Len(s) - 1
  BY <1>0, <1>1, <1>2, <1>3
<1>5. ASSUME NEW n \in 1 .. Len(s) - 1 PROVE t[n] = s[IF n < i THEN n ELSE n + 1]
  <2>a. Len(a) + Len(b) = Len(s) - 1
    <3>1. Len(a) = i - 1 /\ Len(b) = Len(s) - i
      BY <1>1, <1>2
    <3> QED
      BY ONLY <1>0, <3>1
  <2>0. t[n] = IF n <= Len(a) THEN a[n] ELSE b[n - Len(a)]
    BY ONLY <1>3, <1>5, <2>a
  <2>1. CASE n < i
    <3>1. n \in 1 .. i - 1 /\ n <= i - 1
      BY <1>0, <2>1
    <3> QED
      BY <1>1, <2>0, <2>1, <3>1
  <2>2. CASE ~(n < i)
    <3>1. n - (i - 1) \in 1 .. Len(s) - i /\ i + (n - (i - 1)) = n + 1 /\ ~(n <= i - 1)
      BY <1>0, <2>2
    <3>2. b[n - (i - 1)] = s[n + 1]
      BY <1>2, <3>1
    <3> QED
      BY <1>1, <2>0, <2>2, <3>1, <3>2
  <2> QED
    BY <2>1, <2>2
<1>6. Panel!RemoveAt(s, i) = t
  BY DEF Panel!RemoveAt, t, a, b
<1> QED
  BY <1>3, <1>4, <1>5, <1>6

\* The instance's greatest of two.
LEMMA Greatest ==
  ASSUME NEW i \in Int, NEW j \in Int
  PROVE  Panel!Max({i, j}) \in {i, j} /\ Panel!Max({i, j}) >= i /\ Panel!Max({i, j}) >= j
<1> DEFINE k == Panel!Max({i, j})
<1>1. \E x \in {i, j} : \A y \in {i, j} : x >= y
  OBVIOUS
<1>2. k \in {i, j} /\ \A y \in {i, j} : k >= y
  BY <1>1 DEF Panel!Max
<1> QED
  BY <1>2

\* What is kept of a sequence of entries: those at its end, at most each as before.
LEMMA PrunedKeeps ==
  ASSUME NEW u \in Seq(Entries), u # <<>>, OneEach(u)
  PROVE  LET p == Panel!Pruned(u) IN
         p \in Seq(Entries) /\ OneEach(p) /\ EntriesOf(p) \subseteq EntriesOf(u)
<1> DEFINE p == Panel!Pruned(u)
           k == Panel!Max({1, Len(u) - MaxAddresses + 1})
<1>1. Len(u) \in Nat \ {0} /\ DOMAIN u = 1 .. Len(u) /\ \A i \in 1 .. Len(u) : u[i] \in Entries
  OBVIOUS
<1>2. MaxAddresses \in Nat \ {0}
  <2>1. IsFiniteSet(Addresses) /\ MaxAddresses \in 1 .. Cardinality(Addresses)
    BY ViewAssumption
  <2>2. Cardinality(Addresses) \in Nat
    BY <2>1, FS_CardinalityType
  <2> QED
    BY <2>1, <2>2
<1>3. k \in 1 .. Len(u)
  <2>1. Len(u) - MaxAddresses + 1 \in Int /\ Len(u) - MaxAddresses + 1 <= Len(u)
    BY <1>1, <1>2
  <2>2. k \in {1, Len(u) - MaxAddresses + 1} /\ k >= 1
    <3> DEFINE j == Len(u) - MaxAddresses + 1
    <3>1. j \in Int /\ 1 \in Int
      BY <2>1
    <3> HIDE DEF j
    <3>2. Panel!Max({1, j}) \in {1, j} /\ Panel!Max({1, j}) >= 1
      BY <3>1, Greatest, Zenon
    <3> QED
      BY <3>2 DEF j
  <2> HIDE DEF k
  <2> QED
    BY <1>1, <1>2, <2>1, <2>2
<1>4. p = SubSeq(u, k, Len(u))
  BY DEF Panel!Pruned
<1> HIDE DEF p, k
<1>5. /\ p \in Seq(Entries) /\ Len(p) = Len(u) - k + 1
      /\ \A i \in 1 .. Len(u) - k + 1 : p[i] = u[k + i - 1] /\ k + i - 1 \in 1 .. Len(u)
  <2>1. k \in Int /\ Len(u) \in Int /\ k <= Len(u) /\ \A i \in k .. Len(u) : u[i] \in Entries
    BY <1>1, <1>3
  <2>2. /\ p \in Seq(Entries) /\ Len(p) = Len(u) - k + 1
        /\ \A i \in 1 .. Len(u) - k + 1 : p[i] = u[k + i - 1]
    BY <1>4, <2>1, SubSeqProperties
  <2>3. \A i \in 1 .. Len(u) - k + 1 : k + i - 1 \in 1 .. Len(u)
    BY <1>1, <1>3
  <2> QED
    BY <2>2, <2>3
<1>6. DOMAIN p = 1 .. Len(u) - k + 1
  BY <1>5
<1>7. EntriesOf(p) \subseteq EntriesOf(u)
  BY <1>1, <1>5, <1>6 DEF EntriesOf
<1>8. OneEach(p)
  <2> SUFFICES ASSUME NEW i \in DOMAIN p, NEW j \in DOMAIN p, p[i].ip = p[j].ip PROVE i = j
    BY DEF OneEach
  <2>1. u[k + i - 1].ip = u[k + j - 1].ip /\ k + i - 1 \in DOMAIN u /\ k + j - 1 \in DOMAIN u
    BY <1>1, <1>5, <1>6
  <2>2. k + i - 1 = k + j - 1
    BY <2>1 DEF OneEach
  <2> QED
    BY <1>1, <1>3, <1>6, <2>2
<1> QED
  BY <1>5, <1>7, <1>8 DEF p

\* The entry of an address, and the others.
LEMMA OthersKeep ==
  ASSUME NEW a \in Addresses, usage \in Seq(Entries), OneEach(usage)
  PROVE  LET remain == IF Panel!Kept(a) THEN Panel!RemoveAt(usage, Panel!PlaceOf(a)) ELSE usage IN
         /\ remain \in Seq(Entries) /\ OneEach(remain)
         /\ EntriesOf(remain) = {e \in EntriesOf(usage) : e.ip # a}
         /\ Panel!CountOf(a) \in Nat
         /\ \A e \in EntriesOf(usage) : e.ip = a => Panel!CountOf(a) = e.count
         /\ (\A e \in EntriesOf(usage) : e.ip # a) => Panel!CountOf(a) = 0
<1> DEFINE remain == IF Panel!Kept(a) THEN Panel!RemoveAt(usage, Panel!PlaceOf(a)) ELSE usage
           i == Panel!PlaceOf(a)
<1>0. DOMAIN usage = 1 .. Len(usage) /\ Len(usage) \in Nat /\ \A n \in DOMAIN usage : usage[n] \in Entries
  OBVIOUS
<1>1. CASE Panel!Kept(a)
  <2>1. i \in DOMAIN usage /\ usage[i].ip = a
    BY <1>1 DEF Panel!Kept, Panel!PlaceOf
  <2>2. Panel!CountOf(a) = usage[i].count /\ remain = Panel!RemoveAt(usage, i)
    BY <1>1 DEF Panel!CountOf
  <2> HIDE DEF i
  <2>3. /\ remain \in Seq(Entries) /\ Len(remain) = Len(usage) - 1 /\ DOMAIN remain = 1 .. Len(usage) - 1
        /\ \A n \in 1 .. Len(usage) - 1 : remain[n] = usage[IF n < i THEN n ELSE n + 1]
    BY <2>1, <2>2, RemovedAt
  <2> HIDE DEF remain
  <2>4. \A n \in DOMAIN usage : usage[n].ip = a => n = i
    BY <2>1 DEF OneEach
  <2> DEFINE from(n) == IF n < i THEN n ELSE n + 1
  <2>5. \A n \in DOMAIN remain : from(n) \in DOMAIN usage \ {i} /\ remain[n] = usage[from(n)]
    BY <1>0, <2>1, <2>3
  <2>6. \A n, k \in DOMAIN remain : from(n) = from(k) => n = k
    BY <1>0, <2>1, <2>3
  <2>7. \A m \in DOMAIN usage \ {i} : \E n \in DOMAIN remain : from(n) = m
    <3> SUFFICES ASSUME NEW m \in DOMAIN usage \ {i} PROVE \E n \in DOMAIN remain : from(n) = m
      OBVIOUS
    <3>1. CASE m < i
      <4>1. m \in DOMAIN remain /\ from(m) = m
        BY <1>0, <2>1, <2>3, <3>1
      <4> QED
        BY <4>1
    <3>2. CASE ~(m < i)
      <4>1. m - 1 \in DOMAIN remain /\ from(m - 1) = m
        BY <1>0, <2>1, <2>3, <3>2
      <4> QED
        BY <4>1
    <3> QED
      BY <3>1, <3>2
  <2> HIDE DEF from
  <2>8. OneEach(remain)
    <3> SUFFICES ASSUME NEW n \in DOMAIN remain, NEW k \in DOMAIN remain, remain[n].ip = remain[k].ip PROVE n = k
      BY DEF OneEach
    <3>1. from(n) = from(k)
      BY <2>5 DEF OneEach
    <3> QED
      BY <2>6, <3>1
  <2>9. EntriesOf(remain) = {e \in EntriesOf(usage) : e.ip # a}
    <3>1. ASSUME NEW n \in DOMAIN remain PROVE remain[n] \in EntriesOf(usage) /\ remain[n].ip # a
      BY <2>4, <2>5 DEF EntriesOf
    <3>2. ASSUME NEW m \in DOMAIN usage, usage[m].ip # a PROVE \E n \in DOMAIN remain : usage[m] = remain[n]
      <4>1. m # i
        BY <2>1, <3>2
      <4> QED
        BY <2>5, <2>7, <4>1
    <3> QED
      BY <3>1, <3>2 DEF EntriesOf
  <2>10. \A e \in EntriesOf(usage) : e.ip = a => e = usage[i]
    BY <2>4 DEF EntriesOf
  <2>11. usage[i] \in EntriesOf(usage) /\ usage[i].count \in Nat
    <3>1. usage[i] \in Entries
      BY <1>0, <2>1
    <3> QED
      BY <2>1, <3>1 DEF EntriesOf, Entries
  <2> QED
    BY <2>1, <2>2, <2>3, <2>8, <2>9, <2>10, <2>11 DEF remain
<1>2. CASE ~Panel!Kept(a)
  <2>1. remain = usage /\ Panel!CountOf(a) = 0
    BY <1>2 DEF Panel!CountOf
  <2>2. \A e \in EntriesOf(usage) : e.ip # a
    BY <1>2 DEF EntriesOf, Panel!Kept
  <2> HIDE DEF remain
  <2> QED
    BY <2>1, <2>2 DEF remain
<1> QED
  BY <1>1, <1>2

\* recordApiRequest() counts, and tells everybody when the throttle ends.
LEMMA RecordKeeps == ASSUME PanelInv, NEW a \in Addresses, Panel!Record(a) PROVE PanelInv'
<1> DEFINE remain == IF Panel!Kept(a) THEN Panel!RemoveAt(usage, Panel!PlaceOf(a)) ELSE usage
           c == Panel!CountOf(a)
           e == [ip |-> a, count |-> c + 1]
           counted == Append(remain, e)
           p == Panel!Pruned(counted)
<1>0. /\ Tallied(usage, made, dropped) /\ usage \in Seq(Entries) /\ OneEach(usage) /\ made \in [Addresses -> Nat]
  BY DEF PanelInv, Tallied
<1>1. /\ usage' = p /\ made' = [made EXCEPT ![a] = made[a] + 1]
      /\ dropped' = dropped \cup (Panel!ToSet(counted) \ Panel!ToSet(p))
      /\ trailing' = [minute |-> minute, page |-> 1, rows |-> Panel!Listed(p)]
      /\ UNCHANGED <<minute, link, shown>>
  BY DEF Panel!Record, Panel!Everybody, Panel!panel
<1>2. /\ remain \in Seq(Entries) /\ OneEach(remain)
      /\ EntriesOf(remain) = {x \in EntriesOf(usage) : x.ip # a}
      /\ c \in Nat
      /\ \A x \in EntriesOf(usage) : x.ip = a => c = x.count
      /\ (\A x \in EntriesOf(usage) : x.ip # a) => c = 0
  BY <1>0, OthersKeep
<1>3. e \in Entries /\ e.ip = a /\ e.count = c + 1
  BY <1>2 DEF Entries
<1> HIDE DEF remain, c, e
<1>4. /\ counted \in Seq(Entries) /\ counted # <<>> /\ OneEach(counted)
      /\ EntriesOf(counted) = EntriesOf(remain) \cup {e}
  <2>0. Len(remain) \in Nat /\ DOMAIN remain = 1 .. Len(remain)
    BY <1>2
  <2>1. /\ counted \in Seq(Entries) /\ counted # <<>> /\ Len(counted) = Len(remain) + 1
        /\ \A i \in 1 .. Len(remain) : counted[i] = remain[i]
        /\ counted[Len(remain) + 1] = e
    BY <1>2, <1>3, AppendProperties
  <2> HIDE DEF counted
  <2>2. DOMAIN counted = DOMAIN remain \cup {Len(remain) + 1} /\ \A i \in DOMAIN remain : counted[i] = remain[i]
    BY <2>0, <2>1
  <2>3. \A i \in DOMAIN remain : remain[i].ip # a
    <3>1. \A i \in DOMAIN remain : remain[i] \in EntriesOf(remain)
      BY DEF EntriesOf
    <3> QED
      BY <1>2, <3>1
  <2>4. OneEach(counted)
    BY <1>2, <1>3, <2>1, <2>2, <2>3 DEF OneEach
  <2>5. EntriesOf(counted) = EntriesOf(remain) \cup {e}
    BY <2>1, <2>2 DEF EntriesOf
  <2> QED
    BY <2>1, <2>4, <2>5
<1> HIDE DEF counted
<1>5. p \in Seq(Entries) /\ OneEach(p) /\ EntriesOf(p) \subseteq EntriesOf(counted)
  BY <1>4, PrunedKeeps
<1> HIDE DEF p
<1>6. \A x \in EntriesOf(counted) : x \in EntriesOf(p) \/ x \in dropped'
  BY <1>1 DEF Panel!ToSet, EntriesOf
<1>7. \A d \in dropped : d \in dropped'
  BY <1>1
<1>8. /\ made' \in [Addresses -> Nat] /\ made'[a] = made[a] + 1 /\ \A b \in Addresses \ {a} : made'[b] = made[b]
      /\ made[a] \in Nat
  BY <1>0, <1>1
<1>9. c <= made[a] /\ ((\A d \in dropped : d.ip # a) => c = made[a])
  <2>1. CASE \E x \in EntriesOf(usage) : x.ip = a
    BY <1>0, <1>2, <2>1 DEF Tallied
  <2>2. CASE \A x \in EntriesOf(usage) : x.ip # a
    BY <1>0, <1>2, <1>8, <2>2 DEF Tallied
  <2> QED
    BY <2>1, <2>2
<1>10. ASSUME NEW x \in EntriesOf(counted)
       PROVE  x.count <= made'[x.ip] /\ ((\A d \in dropped' : d.ip # x.ip) => x.count = made'[x.ip])
  <2>1. CASE x = e
    BY <1>2, <1>3, <1>7, <1>8, <1>9, <2>1
  <2>2. CASE x # e
    <3>1. x \in EntriesOf(usage) /\ x.ip # a
      BY <1>2, <1>4, <2>2
    <3>2. x \in Entries /\ x.ip \in Addresses
      <4>1. \A i \in DOMAIN usage : usage[i] \in Entries
        BY <1>0
      <4> QED
        BY <3>1, <4>1 DEF EntriesOf, Entries
    <3>3. made'[x.ip] = made[x.ip]
      BY <1>8, <3>1, <3>2
    <3> QED
      BY <1>0, <1>7, <3>1, <3>3 DEF Tallied
  <2> QED
    BY <2>1, <2>2
<1>11. ASSUME NEW b \in Addresses, \A x \in EntriesOf(p) : x.ip # b, \A d \in dropped' : d.ip # b
       PROVE  made'[b] = 0
  <2>1. \A x \in EntriesOf(counted) : x.ip # b
    BY <1>6, <1>11
  <2>2. b # a
    BY <1>3, <1>4, <2>1
  <2>3. \A x \in EntriesOf(usage) : x.ip # b
    BY <1>2, <1>4, <2>1, <2>2
  <2>4. made[b] = 0
    BY <1>0, <1>7, <1>11, <2>3 DEF Tallied
  <2> QED
    BY <1>8, <2>2, <2>4
<1>12. Tallied(p, made', dropped')
  BY <1>5, <1>8, <1>10, <1>11 DEF Tallied
<1>13. /\ trailing'.minute = minute /\ trailing'.rows = Panel!Listed(p) /\ minute' = minute /\ minute \in Nat
  BY <1>1 DEF PanelInv
<1>14. (Panel!TrailingIsLast)'
  <2>1. Panel!Listed(usage)' = Panel!Listed(p)
    BY <1>1
  <2> QED
    BY <1>13, <2>1 DEF Panel!TrailingIsLast
<1> QED
  BY <1>1, <1>12, <1>13, <1>14 DEF PanelInv, LastIsFingerprint

\* A new minute begins with no entries.
LEMMA MinuteKeeps == ASSUME PanelInv, Panel!Minute PROVE PanelInv'
<1>1. /\ minute' = minute + 1 /\ usage' = <<>> /\ made' = [a \in Addresses |-> 0] /\ dropped' = {}
      /\ UNCHANGED <<trailing, link, shown>>
  BY DEF Panel!Minute, Panel!panel
<1>2. EntriesOf(<<>>) = {}
  BY DEF EntriesOf
<1>3. Tallied(usage', made', dropped')
  BY <1>1, <1>2 DEF Tallied, OneEach
<1>4. minute \in Nat /\ (trailing # Nothing => trailing.minute \in Nat /\ trailing.minute <= minute)
  BY DEF PanelInv
<1>5. minute' \in Nat /\ (trailing' # Nothing => trailing'.minute \in Nat /\ trailing'.minute < minute')
  BY <1>1, <1>4
<1>6. (Panel!TrailingIsLast)'
  BY <1>5 DEF Panel!TrailingIsLast
<1> QED
  BY <1>1, <1>3, <1>5, <1>6 DEF PanelInv, LastIsFingerprint

\* A link with these fields.
LinkOf(open, pg, fingerprint, wire) == [open |-> open, page |-> pg, fingerprint |-> fingerprint, wire |-> wire]

\* What is counted stays while the link, or what it tells, changes.
LEMMA LinkKeeps ==
  ASSUME PanelInv, UNCHANGED <<usage, minute, made, dropped>>, trailing' = trailing \/ trailing' = Nothing,
         NEW o, NEW n, NEW f, NEW w, link' = LinkOf(o, n, f, w), IsSeq(w),
         o => IF w = <<>> THEN shown' = f ELSE w[Len(w)] = f
  PROVE  PanelInv'
<1>1. /\ link'.open = o /\ link'.page = n /\ link'.fingerprint = f /\ link'.wire = w
      /\ link' = [open |-> link'.open, page |-> link'.page, fingerprint |-> link'.fingerprint, wire |-> link'.wire]
  BY DEF LinkOf
<1>2. LastIsFingerprint'
  BY <1>1 DEF LastIsFingerprint
<1>3. Panel!Listed(usage)' = Panel!Listed(usage)
  OBVIOUS
<1>4. (Panel!TrailingIsLast)'
  BY <1>3 DEF PanelInv, Panel!TrailingIsLast
<1>5. /\ Tallied(usage', made', dropped')
      /\ minute' \in Nat /\ (trailing' # Nothing => trailing'.minute \in Nat /\ trailing'.minute <= minute')
  BY DEF PanelInv
<1> QED
  BY <1>1, <1>2, <1>4, <1>5 DEF PanelInv

\* One payload, and none.
LEMMA FewAreSeqs == IsSeq(<<>>) /\ \A x : IsSeq(<<x>>) /\ <<x>> # <<>> /\ Len(<<x>>) = 1 /\ <<x>>[1] = x
<1>1. IsSeq(<<>>)
  BY DEF IsSeq
<1>2. \A x : IsSeq(<<x>>) /\ <<x>> # <<>> /\ Len(<<x>>) = 1 /\ <<x>>[1] = x
  <2> SUFFICES ASSUME NEW x PROVE IsSeq(<<x>>) /\ <<x>> # <<>> /\ Len(<<x>>) = 1 /\ <<x>>[1] = x
    OBVIOUS
  <2>1. {<<x>>[i] : i \in DOMAIN <<x>>} = {x}
    OBVIOUS
  <2>2. <<x>> \in Seq({x}) /\ <<x>> # <<>> /\ Len(<<x>>) = 1 /\ <<x>>[1] = x
    OBVIOUS
  <2> QED
    BY <2>1, <2>2 DEF IsSeq
<1> QED
  BY <1>1, <1>2

\* The steps of the stream and of the browser.
LEMMA StreamOfPagesKeeps ==
  ASSUME PanelInv,
         \/ Panel!Flush \/ Panel!Push \/ Panel!Reopen \/ Panel!Break \/ Panel!Receive
         \/ Panel!Serve \/ Panel!Answer \/ Panel!AnswerFails
         \/ \E p \in 1..MaxAddresses : Panel!Turn(p)
  PROVE  PanelInv'
<1> DEFINE w == link.wire
<1>0. /\ link = LinkOf(link.open, link.page, link.fingerprint, w) /\ IsSeq(w) /\ LastIsFingerprint
  BY DEF PanelInv, LinkOf
<1>1. UNCHANGED <<usage, minute, made, dropped>> /\ (trailing' = trailing \/ trailing' = Nothing)
  BY DEF Panel!Flush, Panel!Push, Panel!Reopen, Panel!Break, Panel!Receive, Panel!Serve, Panel!Answer,
         Panel!AnswerFails, Panel!Turn, Panel!counters
<1>2. ASSUME link' = link, shown' = shown PROVE PanelInv'
  BY <1>0, <1>1, <1>2, LinkKeeps DEF LastIsFingerprint
<1>3. ASSUME NEW payload, link' = Panel!Written(payload) PROVE PanelInv'
  <2>1. link' = LinkOf(link.open, link.page, payload, Append(w, payload))
    <3>1. link' = [link EXCEPT !.wire = Append(w, payload), !.fingerprint = payload]
      BY <1>3 DEF Panel!Written
    <3> DEFINE v == Append(w, payload)
    <3> HIDE DEF v
    <3>2. link' = [link EXCEPT !.wire = v, !.fingerprint = payload]
      BY <3>1 DEF v
    <3>3. link' = LinkOf(link.open, link.page, payload, v)
      BY <1>0, <3>2 DEF LinkOf
    <3> QED
      BY <3>3 DEF v
  <2>2. /\ IsSeq(Append(w, payload)) /\ Append(w, payload) # <<>>
        /\ Append(w, payload)[Len(Append(w, payload))] = payload
    BY <1>0, SeqGrows
  <2> QED
    BY <1>1, <2>1, <2>2, LinkKeeps
<1>4. ASSUME NEW p, link' = Panel!Opened(p) PROVE PanelInv'
  <2> DEFINE own == Panel!Page(usage, p)
  <2>1. link' = LinkOf(TRUE, p, own, <<own>>)
    BY <1>4 DEF Panel!Opened, LinkOf
  <2> HIDE DEF own
  <2>2. IsSeq(<<own>>) /\ <<own>> # <<>> /\ <<own>>[Len(<<own>>)] = own
    BY FewAreSeqs
  <2> QED
    BY <1>1, <2>1, <2>2, LinkKeeps
<1>5. CASE Panel!Flush
  BY <1>2, <1>3, <1>5 DEF Panel!Flush, Panel!Published, Panel!panel
<1>6. CASE Panel!Push
  BY <1>3, <1>6 DEF Panel!Push
<1>7. CASE Panel!Reopen
  BY <1>4, <1>7 DEF Panel!Reopen
<1>8. CASE Panel!Break
  <2>1. link' = LinkOf(FALSE, link.page, Nothing, <<>>)
    BY <1>8 DEF Panel!Break, Panel!Closed, LinkOf
  <2> QED
    BY <1>1, <2>1, FewAreSeqs, LinkKeeps
<1>9. CASE Panel!Receive
  <2>1. w # <<>> /\ shown' = Head(w) /\ link' = [link EXCEPT !.wire = Tail(w)]
    BY <1>9 DEF Panel!Receive
  <2> DEFINE v == Tail(w)
  <2>2. IsSeq(v) /\ (v = <<>> => Head(w) = w[Len(w)]) /\ (v # <<>> => v[Len(v)] = w[Len(w)])
    BY <1>0, <2>1, SeqShrinks
  <2> HIDE DEF v
  <2>3. link' = [link EXCEPT !.wire = v]
    BY <2>1 DEF v
  <2>4. link' = LinkOf(link.open, link.page, link.fingerprint, v)
    BY <1>0, <2>3 DEF LinkOf
  <2>5. link.open => w[Len(w)] = link.fingerprint
    BY <1>0, <2>1 DEF LastIsFingerprint
  <2>6. link.open => IF v = <<>> THEN shown' = link.fingerprint ELSE v[Len(v)] = link.fingerprint
    BY <2>1, <2>2, <2>5
  <2> QED
    BY <1>1, <2>2, <2>4, <2>6, LinkKeeps
<1>10. CASE Panel!Answer
  BY <1>4, <1>10 DEF Panel!Answer
<1>11. CASE Panel!Serve \/ Panel!AnswerFails \/ \E p \in 1..MaxAddresses : Panel!Turn(p)
  BY <1>2, <1>11 DEF Panel!Serve, Panel!AnswerFails, Panel!Turn
<1> QED
  BY <1>5, <1>6, <1>7, <1>8, <1>9, <1>10, <1>11

\* Every step keeps the invariant.
LEMMA PanelStep == PanelInv /\ [ArtifactsNext]_<<rest, people, side>> => PanelInv'
<1> SUFFICES ASSUME PanelInv, [ArtifactsNext]_<<rest, people, side>> PROVE PanelInv'
  OBVIOUS
<1>1. ASSUME UNCHANGED panels PROVE PanelInv'
  <2>1. UNCHANGED <<usage, minute, made, dropped, trailing>> /\ link' = link /\ shown' = shown
    BY <1>1 DEF panels
  <2>2. /\ link = LinkOf(link.open, link.page, link.fingerprint, link.wire)
        /\ IsSeq(link.wire) /\ LastIsFingerprint
    BY DEF PanelInv, LinkOf
  <2> QED
    BY <2>1, <2>2, LinkKeeps DEF LastIsFingerprint
<1>2. ASSUME Panel!PanelsNext PROVE PanelInv'
  BY <1>2, RecordKeeps, MinuteKeeps, StreamOfPagesKeeps DEF Panel!PanelsNext
<1>3. UNCHANGED panels \/ Panel!PanelsNext
  BY DEF ArtifactsNext, rest, people
<1> QED
  BY <1>1, <1>2, <1>3

\* At the beginning each of as many addresses as are kept has made one request.
LEMMA PanelStart == Panel!PanelsInit => PanelInv
<1> SUFFICES ASSUME Panel!PanelsInit PROVE PanelInv
  OBVIOUS
<1> DEFINE order == Panel!SetToSeq(Addresses)
           N == Cardinality(Addresses)
<1>1. IsFiniteSet(Addresses) /\ N \in Nat /\ MaxAddresses \in 1 .. N
  BY ViewAssumption, FS_CardinalityType
<1>2. order \in [1 .. N -> Addresses] /\ \A i, j \in 1 .. N : order[i] = order[j] => i = j
  <2>1. order = CHOOSE f \in [1 .. N -> Addresses] : Panel!IsInjective(f)
    <3>1. Panel!Cardinality(Addresses) = N
      BY DEF Cardinality, Panel!Cardinality
    <3> QED
      BY <3>1 DEF Panel!SetToSeq
  <2>2. ExistsBijection(1 .. N, Addresses)
    BY <1>1, FS_CardinalityType
  <2>3. PICK g \in Bijection(1 .. N, Addresses) : TRUE
    BY <2>2 DEF ExistsBijection
  <2>4. g \in [1 .. N -> Addresses] /\ Panel!IsInjective(g)
    BY <2>3 DEF Bijection, Injection, IsInjective, Panel!IsInjective
  <2>5. order \in [1 .. N -> Addresses] /\ Panel!IsInjective(order)
    <3> HIDE DEF order, N
    <3> QED
      BY <2>1, <2>4
  <2> HIDE DEF order, N
  <2> QED
    BY <2>5 DEF Panel!IsInjective
<1>3. /\ usage = [n \in 1 .. MaxAddresses |-> [ip |-> order[n], count |-> 1]]
      /\ made = [a \in Addresses |-> Panel!CountOf(a)] /\ minute = 0 /\ dropped = {}
      /\ trailing = Nothing /\ link = Panel!Closed
  BY DEF Panel!PanelsInit
<1> HIDE DEF order, N
<1>4. /\ MaxAddresses \in Nat /\ DOMAIN usage = 1 .. MaxAddresses
      /\ \A n \in 1 .. MaxAddresses : usage[n].ip = order[n] /\ usage[n].count = 1 /\ usage[n] \in Entries
  BY <1>1, <1>2, <1>3 DEF Entries
<1>5. usage \in Seq(Entries)
  <2>1. usage \in [1 .. MaxAddresses -> Entries]
    BY <1>3, <1>4
  <2> QED
    BY <1>4, <2>1
<1>6. OneEach(usage)
  BY <1>1, <1>2, <1>4 DEF OneEach
<1>7. ASSUME NEW a \in Addresses
      PROVE  /\ Panel!CountOf(a) \in Nat
             /\ \A e \in EntriesOf(usage) : e.ip = a => Panel!CountOf(a) = e.count
             /\ (\A e \in EntriesOf(usage) : e.ip # a) => Panel!CountOf(a) = 0
  BY <1>5, <1>6, OthersKeep
<1>8. made \in [Addresses -> Nat] /\ \A a \in Addresses : made[a] = Panel!CountOf(a)
  BY <1>3, <1>7
<1>9. \A e \in EntriesOf(usage) : e \in Entries /\ e.ip \in Addresses /\ e.count \in Nat
  BY <1>4 DEF EntriesOf, Entries
<1>10. Tallied(usage, made, dropped)
  BY <1>3, <1>5, <1>6, <1>7, <1>8, <1>9 DEF Tallied
<1>11. /\ link = LinkOf(FALSE, 1, Nothing, <<>>)
  BY <1>3 DEF Panel!Closed, LinkOf
<1>12. /\ link = [open |-> link.open, page |-> link.page, fingerprint |-> link.fingerprint, wire |-> link.wire]
       /\ IsSeq(link.wire) /\ ~link.open
  BY <1>11, FewAreSeqs DEF LinkOf
<1> QED
  BY <1>3, <1>10, <1>12 DEF PanelInv, LastIsFingerprint, Panel!TrailingIsLast

\* What is told and counted, from the invariant.
LEMMA PanelTells == PanelInv => Panel!PanelAgrees
<1> SUFFICES ASSUME PanelInv PROVE Panel!RestIsOwnPage /\ Panel!TrailingIsLast /\ Panel!CountsTrue
  BY DEF Panel!PanelAgrees
<1>1. Panel!RestIsOwnPage
  BY DEF PanelInv, LastIsFingerprint, Panel!RestIsOwnPage
<1>2. Panel!CountsTrue
  <2> SUFFICES ASSUME NEW a \in Addresses
               PROVE  /\ Panel!CountOf(a) <= made[a]
                      /\ (\A d \in dropped : d.ip # a) => Panel!CountOf(a) = made[a]
    BY DEF Panel!CountsTrue
  <2>1. Tallied(usage, made, dropped) /\ made[a] \in Nat /\ usage \in Seq(Entries) /\ OneEach(usage)
    BY DEF PanelInv, Tallied
  <2>2. /\ Panel!CountOf(a) \in Nat
        /\ \A e \in EntriesOf(usage) : e.ip = a => Panel!CountOf(a) = e.count
        /\ (\A e \in EntriesOf(usage) : e.ip # a) => Panel!CountOf(a) = 0
    BY <2>1, OthersKeep
  <2>3. CASE \E e \in EntriesOf(usage) : e.ip = a
    BY <2>1, <2>2, <2>3 DEF Tallied
  <2>4. CASE \A e \in EntriesOf(usage) : e.ip # a
    BY <2>1, <2>2, <2>4 DEF Tallied
  <2> QED
    BY <2>3, <2>4
<1> QED
  BY <1>1, <1>2 DEF PanelInv

-----------------------------------------------------------------------------
(* The page of executions *)

LiveKinds == {"history", "active-executions", "execution-detail"}
Persons == Items \cup {Nobody}
Queries == [kind : LiveKinds, coordinated : BOOLEAN, id : Persons, current : BOOLEAN, read : Seq(Nat)]
Fetches == [Requests -> {Live!Idle} \cup Queries]

\* Requests whose answer will be shown, and whether they read nothing older than s.
CurrentOf(f, kind) == {r \in Requests : f[r].kind = kind /\ f[r].current}
OneCurrent(f) == \A kind \in LiveKinds : \A r, q \in CurrentOf(f, kind) : r = q
Underway(f, kind, s) == \E r \in CurrentOf(f, kind) : \A i \in DOMAIN f[r].read : f[r].read[i] >= s

\* A refresh waits for one that runs.
Pending(f, w, kind) == kind \in w /\ Live!Running(f, kind)

\* A value that is shown is not older than s.
Fresh(v, s) == v = Failed \/ (v \in Nat /\ v >= s)

HistoryFresh(f, w, l, pg, s) ==
  \/ Pending(f, w, "history") \/ Underway(f, "history", s)
  \/ CurrentOf(f, "history") = {} /\ l.page = pg /\ Fresh(l.shown, s)

ActiveFresh(f, w, q, s) ==
  \/ Pending(f, w, "active-executions") \/ Underway(f, "active-executions", s)
  \/ CurrentOf(f, "active-executions") = {} /\ q # {} /\ \A v \in q : Fresh(v, s)

\* The same requests of a kind are current in f and in g, and what ran runs.
Same(f, g, kind) ==
  /\ CurrentOf(g, kind) = CurrentOf(f, kind) /\ \A r \in CurrentOf(f, kind) : g[r].read = f[r].read /\ g[r].id = f[r].id
  /\ Live!Running(f, kind) => Live!Running(g, kind)

\* A request is idle or one of these, and never both.
LEMMA QueryOrIdle ==
  ASSUME NEW f \in Fetches, NEW r \in Requests
  PROVE  /\ f[r] = Live!Idle => f[r].kind = "none"
         /\ f[r] # Live!Idle => f[r] \in Queries
         /\ f[r].kind \in LiveKinds => f[r] \in Queries
         /\ f[r] \in Queries => f[r].kind \in LiveKinds /\ f[r] # Live!Idle
<1>1. f[r] = Live!Idle \/ f[r] \in Queries
  BY DEF Fetches
<1>2. Live!Idle.kind = "none" /\ "none" \notin LiveKinds
  BY DEF Live!Idle, LiveKinds
<1>3. f[r] \in Queries => f[r].kind \in LiveKinds
  BY DEF Queries
<1> QED
  BY <1>1, <1>2, <1>3

\* Answers of a kind become obsolete.
LEMMA SupersededKeeps ==
  ASSUME NEW f \in Fetches, OneCurrent(f), NEW kind \in LiveKinds
  PROVE  LET g == Live!Superseded(f, kind) IN
         /\ g \in Fetches /\ OneCurrent(g) /\ CurrentOf(g, kind) = {}
         /\ \A k \in LiveKinds \ {kind} : Same(f, g, k)
         /\ \A k : Live!Running(f, k) <=> Live!Running(g, k)
         /\ \A r \in Requests : g[r] = Live!Idle <=> f[r] = Live!Idle
<1> DEFINE g == Live!Superseded(f, kind)
<1>1. /\ g = [r \in Requests |-> IF f[r].kind = kind THEN [f[r] EXCEPT !.current = FALSE] ELSE f[r]]
  BY DEF Live!Superseded
<1>2. ASSUME NEW r \in Requests, f[r].kind = kind
      PROVE  /\ g[r] \in Queries /\ f[r] \in Queries /\ g[r].kind = kind /\ ~g[r].current
             /\ g[r].coordinated = f[r].coordinated
  <2>1. f[r] \in Queries
    BY <1>2, QueryOrIdle
  <2>2. g[r] = [f[r] EXCEPT !.current = FALSE]
    BY <1>1, <1>2
  <2>3. \A q \in Queries : LET h == [q EXCEPT !.current = FALSE] IN
          h \in Queries /\ h.kind = q.kind /\ h.current = FALSE /\ h.coordinated = q.coordinated
    BY DEF Queries
  <2> HIDE DEF g
  <2> QED
    BY <1>2, <2>1, <2>2, <2>3
<1>3. \A r \in Requests : f[r].kind # kind => g[r] = f[r]
  BY <1>1
<1>4. DOMAIN g = Requests /\ g = [r \in Requests |-> g[r]]
  BY <1>1
<1> HIDE DEF g
<1>5. g \in Fetches
  <2>1. \A r \in Requests : g[r] \in {Live!Idle} \cup Queries
    BY <1>2, <1>3 DEF Fetches
  <2> QED
    BY <1>4, <2>1 DEF Fetches
<1>6. CurrentOf(g, kind) = {}
  BY <1>2, <1>3 DEF CurrentOf
<1>7. \A k : k # kind => CurrentOf(g, k) = CurrentOf(f, k) /\ \A r \in CurrentOf(f, k) : g[r] = f[r]
  BY <1>2, <1>3 DEF CurrentOf
<1>8. OneCurrent(g)
  BY <1>6, <1>7 DEF OneCurrent
<1>9. \A k : Live!Running(f, k) <=> Live!Running(g, k)
  BY <1>2, <1>3 DEF Live!Running
<1>10. \A r \in Requests : g[r] = Live!Idle <=> f[r] = Live!Idle
  BY <1>2, <1>3, <1>5, QueryOrIdle
<1>11. \A k \in LiveKinds \ {kind} : Same(f, g, k)
  BY <1>7, <1>9 DEF Same
<1> QED
  BY <1>5, <1>6, <1>8, <1>9, <1>10, <1>11 DEF g

\* A request is made: it alone of its kind is current, and has read nothing.
LEMMA AskedKeeps ==
  ASSUME NEW f \in Fetches, OneCurrent(f), NEW kind \in LiveKinds, NEW c \in BOOLEAN, NEW x \in Persons,
         \E r \in Requests : f[r] = Live!Idle
  PROVE  LET g == Live!Asked(f, kind, c, x) IN
         /\ g \in Fetches /\ OneCurrent(g)
         /\ \A r \in CurrentOf(g, kind) : g[r].id = x
         /\ \A s : Underway(g, kind, s)
         /\ \A k \in LiveKinds \ {kind} : Same(f, g, k)
         /\ \A k \in LiveKinds : Live!Running(f, k) => Live!Running(g, k)
         /\ \A r \in Requests : \A q \in Requests :
              f[r] = Live!Idle /\ f[q] = Live!Idle /\ r # q => \E i \in Requests : g[i] = Live!Idle
<1> DEFINE h == Live!Superseded(f, kind)
           n == CHOOSE r \in Requests : f[r] = Live!Idle
           new == [kind |-> kind, coordinated |-> c, id |-> x, current |-> TRUE, read |-> <<>>]
           g == [h EXCEPT ![n] = new]
<1>1. Live!Asked(f, kind, c, x) = g
  BY DEF Live!Asked
<1>2. n \in Requests /\ f[n] = Live!Idle
  OBVIOUS
<1>3. new \in Queries /\ new.kind = kind /\ new.current /\ new.read = <<>> /\ new.id = x
  BY DEF Queries
<1>4. /\ h \in Fetches /\ OneCurrent(h) /\ CurrentOf(h, kind) = {}
      /\ \A k \in LiveKinds \ {kind} : Same(f, h, k)
      /\ \A k : Live!Running(f, k) <=> Live!Running(h, k)
      /\ \A r \in Requests : h[r] = Live!Idle <=> f[r] = Live!Idle
  BY SupersededKeeps
<1> HIDE DEF h, n, new
<1>5. g \in Fetches /\ g[n] = new /\ \A r \in Requests \ {n} : g[r] = h[r]
  BY <1>2, <1>3, <1>4 DEF Fetches
<1> HIDE DEF g
<1>6. h[n] = Live!Idle /\ h[n].kind = "none"
  BY <1>2, <1>4, QueryOrIdle
<1>7. CurrentOf(g, kind) = {n}
  BY <1>2, <1>3, <1>4, <1>5 DEF CurrentOf
<1>8. \A k \in LiveKinds \ {kind} : CurrentOf(g, k) = CurrentOf(h, k) /\ \A r \in CurrentOf(h, k) : g[r] = h[r]
  <2> SUFFICES ASSUME NEW k \in LiveKinds \ {kind}
               PROVE  CurrentOf(g, k) = CurrentOf(h, k) /\ \A r \in CurrentOf(h, k) : g[r] = h[r]
    OBVIOUS
  <2>1. h[n].kind # k /\ g[n].kind # k
    BY <1>3, <1>5, <1>6 DEF LiveKinds
  <2>2. \A r \in Requests : r \in CurrentOf(g, k) <=> r \in CurrentOf(h, k)
    BY <1>5, <2>1 DEF CurrentOf
  <2>3. \A r \in CurrentOf(h, k) : r \in Requests \ {n}
    BY <2>1 DEF CurrentOf
  <2>4. CurrentOf(g, k) \subseteq Requests /\ CurrentOf(h, k) \subseteq Requests
    BY DEF CurrentOf
  <2> QED
    BY <1>5, <2>2, <2>3, <2>4
<1>9. OneCurrent(g)
  BY <1>4, <1>7, <1>8 DEF OneCurrent
<1>10. \A s : Underway(g, kind, s)
  BY <1>3, <1>5, <1>7 DEF Underway
<1>11. \A r \in CurrentOf(g, kind) : g[r].id = x
  BY <1>3, <1>5, <1>7
<1>12. \A k \in LiveKinds : Live!Running(f, k) => Live!Running(g, k)
  <2> SUFFICES ASSUME NEW k \in LiveKinds, Live!Running(h, k) PROVE Live!Running(g, k)
    BY <1>4
  <2>1. PICK r \in Requests : h[r].kind = k /\ h[r].coordinated
    BY DEF Live!Running
  <2>2. CASE r # n
    BY <1>5, <2>1, <2>2 DEF Live!Running
  <2>3. r # n
    BY <1>6, <2>1 DEF LiveKinds
  <2> QED
    BY <2>2, <2>3
<1>13. \A k \in LiveKinds \ {kind} : Same(f, g, k)
  BY <1>4, <1>8, <1>12 DEF Same
<1>14. ASSUME NEW r \in Requests, NEW q \in Requests, f[r] = Live!Idle, f[q] = Live!Idle, r # q
       PROVE  \E i \in Requests : g[i] = Live!Idle
  BY <1>4, <1>5, <1>14
<1> QED
  BY <1>1, <1>5, <1>9, <1>10, <1>11, <1>12, <1>13, <1>14

\* The requests of the browser: one of a kind is current, and a detail is of who is selected.
Details(f, x) == \A r \in CurrentOf(f, "execution-detail") : f[r].id = x
Good(f, x) == f \in Fetches /\ OneCurrent(f) /\ Details(f, x)

StreamInv ==
  /\ version \in Nat /\ newest \in Nat /\ newest <= version
  /\ seen \in Nat \cup {Nothing} /\ (seen \in Nat => seen <= newest)
  /\ stream \in Seq(Nat \cup {Connected}) /\ \A i \in DOMAIN stream : stream[i] \in Nat => stream[i] <= newest
  /\ linked => /\ sent \in Nat /\ sent <= newest
               /\ IF stream = <<>> THEN seen = sent ELSE stream[Len(stream)] = sent

ViewFresh ==
  /\ seen \in Nat /\ view = "runs" => HistoryFresh(fetch, waiting, list, page, seen)
  /\ seen \in Nat /\ view = "dashboard" => ActiveFresh(fetch, waiting, queue, seen)

LiveInv ==
  /\ StreamInv
  /\ Good(fetch, selected) /\ selected \in Persons /\ detail \in {Nothing, selected}
  /\ ViewFresh

\* A browser at rest shows what the invariant says.
LEMMA LiveTells == LiveInv => Live!ViewAgrees
<1> SUFFICES ASSUME LiveInv PROVE Live!QuietIsCurrent /\ Live!DetailIsSelected
  BY DEF Live!ViewAgrees
<1>1. Live!DetailIsSelected
  BY DEF LiveInv, Live!DetailIsSelected
<1>2. Live!QuietIsCurrent
  <2> SUFFICES ASSUME linked, stream = <<>>, sent = newest, fetch = [r \in Requests |-> Live!Idle]
               PROVE  /\ view = "runs" => list.page = page /\ (list.shown = Failed \/ list.shown >= newest)
                      /\ view = "dashboard" => queue # {} /\ \A v \in queue : v = Failed \/ v >= newest
    BY DEF Live!QuietIsCurrent
  <2>1. seen = newest /\ newest \in Nat
    BY DEF LiveInv, StreamInv
  <2>2. \A r \in Requests : fetch[r].kind = "none"
    BY DEF Live!Idle
  <2>3. \A k \in LiveKinds : ~Live!Running(fetch, k) /\ CurrentOf(fetch, k) = {}
    BY <2>2 DEF LiveKinds, Live!Running, CurrentOf
  <2>4. \A k \in LiveKinds : ~Pending(fetch, waiting, k) /\ ~Underway(fetch, k, seen)
    BY <2>3 DEF Pending, Underway
  <2> QED
    BY <2>1, <2>4 DEF LiveInv, ViewFresh, HistoryFresh, ActiveFresh, Fresh, LiveKinds
<1> QED
  BY <1>1, <1>2

\* What is fresh stays so while the requests of its kind go on.
LEMMA FreshStays ==
  ASSUME NEW f, NEW g, NEW w, NEW w2, NEW s
  PROVE  /\ \A l : \A pg : HistoryFresh(f, w, l, pg, s) /\ Same(f, g, "history") /\ ("history" \in w => "history" \in w2)
                           => HistoryFresh(g, w2, l, pg, s)
         /\ \A q : ActiveFresh(f, w, q, s) /\ Same(f, g, "active-executions")
                   /\ ("active-executions" \in w => "active-executions" \in w2)
                   => ActiveFresh(g, w2, q, s)
<1>1. ASSUME NEW k, Same(f, g, k), k \in w => k \in w2
      PROVE  /\ Pending(f, w, k) => Pending(g, w2, k)
             /\ Underway(f, k, s) => Underway(g, k, s)
             /\ CurrentOf(g, k) = CurrentOf(f, k)
  BY <1>1 DEF Same, Pending, Underway
<1> QED
  BY <1>1 DEF HistoryFresh, ActiveFresh

\* The same twice is the same.
LEMMA SameAgain ==
  ASSUME NEW f, NEW g, NEW h, NEW k, Same(f, g, k), Same(g, h, k)
  PROVE  Same(f, h, k)
BY DEF Same

\* Room for one request, or for two.
LEMMA RoomFor ==
  ASSUME NEW f
  PROVE  /\ Live!Room(f, 1) => \E r \in Requests : f[r] = Live!Idle
         /\ Live!Room(f, 2) => \E r \in Requests : \E q \in Requests : f[r] = Live!Idle /\ f[q] = Live!Idle /\ r # q
<1> DEFINE I == {r \in Requests : f[r] = Live!Idle}
<1>1. IsFiniteSet(I) /\ Cardinality(I) \in Nat
  BY ViewAssumption, FS_Subset, FS_CardinalityType
<1>2. Live!Cardinality(I) = Cardinality(I)
  BY DEF Cardinality, Live!Cardinality
<1>3. \A n : Live!Room(f, n) <=> Cardinality(I) >= n
  BY <1>2 DEF Live!Room
<1>4. Cardinality(I) >= 1 => I # {}
  <2> HIDE DEF I
  <2> QED
    BY <1>1, FS_EmptySet
<1>5. ASSUME Cardinality(I) >= 2 PROVE \E r \in I : \E q \in I : r # q
  <2> HIDE DEF I
  <2>1. PICK r \in I : TRUE
    BY <1>4, <1>5, <1>1
  <2>2. CASE I = {r}
    BY <1>5, <2>2, FS_Singleton
  <2> QED
    BY <2>1, <2>2
<1> QED
  BY <1>3, <1>4, <1>5

\* A refresh of a kind starts.
LEMMA RefreshedKeeps ==
  ASSUME NEW f, Good(f, selected), NEW kind \in LiveKinds, NEW shown1, selected \in Persons,
         \E r \in Requests : f[r] = Live!Idle
  PROVE  LET g == Live!Refreshed(f, kind, shown1) IN
         /\ Good(g, selected)
         /\ kind # "execution-detail" => \A s : Underway(g, kind, s)
         /\ \A k \in LiveKinds \ {kind} : Same(f, g, k)
         /\ \A k \in LiveKinds : Live!Running(f, k) => Live!Running(g, k)
         /\ \A r \in Requests : \A q \in Requests :
              f[r] = Live!Idle /\ f[q] = Live!Idle /\ r # q => \E i \in Requests : g[i] = Live!Idle
<1>0. f \in Fetches /\ OneCurrent(f) /\ Details(f, selected)
  BY DEF Good
<1>1. CASE kind # "execution-detail"
  <2> DEFINE g == Live!Asked(f, kind, TRUE, Nobody)
  <2>1. Live!Refreshed(f, kind, shown1) = g
    BY <1>1 DEF Live!Refreshed
  <2>2. Nobody \in Persons /\ TRUE \in BOOLEAN
    BY DEF Persons
  <2>3. /\ g \in Fetches /\ OneCurrent(g)
        /\ \A s : Underway(g, kind, s)
        /\ \A k \in LiveKinds \ {kind} : Same(f, g, k)
        /\ \A k \in LiveKinds : Live!Running(f, k) => Live!Running(g, k)
        /\ \A r \in Requests : \A q \in Requests :
             f[r] = Live!Idle /\ f[q] = Live!Idle /\ r # q => \E i \in Requests : g[i] = Live!Idle
    BY <1>0, <2>2, AskedKeeps
  <2> HIDE DEF g
  <2>4. Same(f, g, "execution-detail")
    BY <1>1, <2>3 DEF LiveKinds
  <2>5. Details(g, selected)
    BY <1>0, <2>4 DEF Details, Same
  <2> QED
    BY <2>1, <2>3, <2>5 DEF Good
<1>2. CASE kind = "execution-detail" /\ shown1 # Nothing
  <2> DEFINE g == Live!Asked(f, kind, TRUE, selected)
  <2>1. Live!Refreshed(f, kind, shown1) = g
    BY <1>2 DEF Live!Refreshed
  <2>2. TRUE \in BOOLEAN
    OBVIOUS
  <2>3. /\ g \in Fetches /\ OneCurrent(g)
        /\ \A r \in CurrentOf(g, kind) : g[r].id = selected
        /\ \A k \in LiveKinds \ {kind} : Same(f, g, k)
        /\ \A k \in LiveKinds : Live!Running(f, k) => Live!Running(g, k)
        /\ \A r \in Requests : \A q \in Requests :
             f[r] = Live!Idle /\ f[q] = Live!Idle /\ r # q => \E i \in Requests : g[i] = Live!Idle
    BY <1>0, <2>2, AskedKeeps
  <2> HIDE DEF g
  <2>5. Details(g, selected)
    BY <1>2, <2>3 DEF Details
  <2> QED
    BY <1>2, <2>1, <2>3, <2>5 DEF Good
<1>3. CASE kind = "execution-detail" /\ shown1 = Nothing
  <2>1. Live!Refreshed(f, kind, shown1) = f
    BY <1>3 DEF Live!Refreshed
  <2>2. \A k : Same(f, f, k)
    BY DEF Same
  <2> QED
    BY <1>3, <2>1, <2>2
<1> QED
  BY <1>1, <1>2, <1>3

\* A refresh of a kind starts, if it is due and none runs.
LEMMA OneStartedKeeps ==
  ASSUME NEW f, Good(f, selected), NEW kind \in LiveKinds, NEW kinds, selected \in Persons,
         kind \in kinds => \E r \in Requests : f[r] = Live!Idle
  PROVE  LET g == Live!OneStarted(f, kind, kinds) IN
         /\ Good(g, selected)
         /\ kind \notin kinds => g = f
         /\ kind \in kinds /\ kind # "execution-detail" => Live!Running(f, kind) \/ \A s : Underway(g, kind, s)
         /\ \A k \in LiveKinds \ {kind} : Same(f, g, k)
         /\ \A k \in LiveKinds : Live!Running(f, k) => Live!Running(g, k)
         /\ \A r \in Requests : \A q \in Requests :
              f[r] = Live!Idle /\ f[q] = Live!Idle /\ r # q => \E i \in Requests : g[i] = Live!Idle
<1>1. CASE kind \in kinds /\ ~Live!Running(f, kind)
  <2> DEFINE g == Live!Refreshed(f, kind, detail)
  <2>1. Live!OneStarted(f, kind, kinds) = g
    BY <1>1 DEF Live!OneStarted
  <2>2. /\ Good(g, selected)
        /\ kind # "execution-detail" => \A s : Underway(g, kind, s)
        /\ \A k \in LiveKinds \ {kind} : Same(f, g, k)
        /\ \A k \in LiveKinds : Live!Running(f, k) => Live!Running(g, k)
        /\ \A r \in Requests : \A q \in Requests :
             f[r] = Live!Idle /\ f[q] = Live!Idle /\ r # q => \E i \in Requests : g[i] = Live!Idle
    BY <1>1, RefreshedKeeps
  <2> HIDE DEF g
  <2> QED
    BY <1>1, <2>1, <2>2
<1>2. CASE ~(kind \in kinds /\ ~Live!Running(f, kind))
  <2>1. Live!OneStarted(f, kind, kinds) = f
    BY <1>2 DEF Live!OneStarted
  <2>2. \A k : Same(f, f, k)
    BY DEF Same
  <2> QED
    BY <1>2, <2>1, <2>2
<1> QED
  BY <1>1, <1>2

\* The refreshes that an event brings start, those that can.
LEMMA StartedKeeps ==
  ASSUME NEW f, Good(f, selected), selected \in Persons,
         NEW kinds, kinds \subseteq {"history", "execution-detail"} \/ kinds \subseteq {"active-executions"},
         kinds # {} => \E r \in Requests : f[r] = Live!Idle,
         {"history", "execution-detail"} \subseteq kinds =>
           \E r \in Requests : \E q \in Requests : f[r] = Live!Idle /\ f[q] = Live!Idle /\ r # q
  PROVE  LET g == Live!Started(f, kinds) IN
         /\ Good(g, selected)
         /\ \A k \in LiveKinds \ kinds : Same(f, g, k)
         /\ \A k \in kinds \ {"execution-detail"} :
              (Live!Running(f, k) /\ Live!Running(g, k)) \/ \A s : Underway(g, k, s)
<1> DEFINE f1 == Live!OneStarted(f, "history", kinds)
           f2 == Live!OneStarted(f1, "active-executions", kinds)
           f3 == Live!OneStarted(f2, "execution-detail", kinds)
<1>1. Live!Started(f, kinds) = f3
  BY DEF Live!Started
<1>0. "history" \in LiveKinds /\ "active-executions" \in LiveKinds /\ "execution-detail" \in LiveKinds
  BY DEF LiveKinds
<1>2. /\ Good(f1, selected)
      /\ "history" \notin kinds => f1 = f
      /\ "history" \in kinds => Live!Running(f, "history") \/ \A s : Underway(f1, "history", s)
      /\ \A k \in LiveKinds \ {"history"} : Same(f, f1, k)
      /\ \A k \in LiveKinds : Live!Running(f, k) => Live!Running(f1, k)
      /\ \A r \in Requests : \A q \in Requests :
           f[r] = Live!Idle /\ f[q] = Live!Idle /\ r # q => \E i \in Requests : f1[i] = Live!Idle
  BY <1>0, OneStartedKeeps
<1> HIDE DEF f1
<1>3. "active-executions" \in kinds => f1 = f /\ \E r \in Requests : f1[r] = Live!Idle
  BY <1>2
<1>4. /\ Good(f2, selected)
      /\ "active-executions" \notin kinds => f2 = f1
      /\ "active-executions" \in kinds => Live!Running(f1, "active-executions") \/ \A s : Underway(f2, "active-executions", s)
      /\ \A k \in LiveKinds \ {"active-executions"} : Same(f1, f2, k)
      /\ \A k \in LiveKinds : Live!Running(f1, k) => Live!Running(f2, k)
  BY <1>0, <1>2, <1>3, OneStartedKeeps
<1> HIDE DEF f2
<1>5. "execution-detail" \in kinds => \E r \in Requests : f2[r] = Live!Idle
  <2> SUFFICES ASSUME "execution-detail" \in kinds PROVE \E r \in Requests : f2[r] = Live!Idle
    OBVIOUS
  <2>1. f2 = f1
    BY <1>4
  <2>2. CASE "history" \in kinds
    BY <1>2, <2>1, <2>2
  <2>3. CASE "history" \notin kinds
    BY <1>2, <2>1, <2>3
  <2> QED
    BY <2>2, <2>3
<1>6. /\ Good(f3, selected)
      /\ "execution-detail" \notin kinds => f3 = f2
      /\ \A k \in LiveKinds \ {"execution-detail"} : Same(f2, f3, k)
      /\ \A k \in LiveKinds : Live!Running(f2, k) => Live!Running(f3, k)
  BY <1>0, <1>4, <1>5, OneStartedKeeps
<1> HIDE DEF f3
<1>7. ASSUME NEW k \in LiveKinds \ kinds PROVE Same(f, f3, k)
  <2>0. Same(f, f, k)
    BY DEF Same
  <2>1. Same(f, f1, k)
    BY <1>2, <2>0
  <2>2. Same(f1, f2, k)
    <3>1. f1 = f2 => Same(f1, f2, k)
      BY DEF Same
    <3> QED
      BY <1>4, <3>1
  <2>3. Same(f2, f3, k)
    <3>1. f2 = f3 => Same(f2, f3, k)
      BY DEF Same
    <3> QED
      BY <1>6, <3>1
  <2> QED
    BY <2>1, <2>2, <2>3, SameAgain
<1>8. "history" \in kinds => (Live!Running(f, "history") /\ Live!Running(f3, "history")) \/ \A s : Underway(f3, "history", s)
  <2> SUFFICES ASSUME "history" \in kinds
               PROVE  (Live!Running(f, "history") /\ Live!Running(f3, "history")) \/ \A s : Underway(f3, "history", s)
    OBVIOUS
  <2>1. f2 = f1 /\ Same(f2, f3, "history")
    BY <1>0, <1>4, <1>6
  <2>2. \A s : Underway(f1, "history", s) => Underway(f3, "history", s)
    BY <2>1 DEF Same, Underway
  <2> QED
    BY <1>0, <1>2, <1>6, <2>1, <2>2
<1>9. "active-executions" \in kinds =>
        (Live!Running(f, "active-executions") /\ Live!Running(f3, "active-executions"))
        \/ \A s : Underway(f3, "active-executions", s)
  BY <1>0, <1>2, <1>3, <1>4, <1>6
<1> QED
  BY <1>1, <1>6, <1>7, <1>8, <1>9

\* What the executions of an event change.
LEMMA SnapshotKeeps ==
  ASSUME Good(fetch, selected), selected \in Persons, NEW v \in Nat, Live!Snapshot(v),
         UNCHANGED <<view, page, queue, selected>>
  PROVE  seen' = v /\ Good(fetch', selected') /\ ViewFresh'
<1> DEFINE applied == view = "runs" /\ page = 1
           kinds == (IF view = "runs" /\ page # 1 THEN {"history"} ELSE {})
                    \cup (IF view = "runs" /\ selected # Nobody THEN {"execution-detail"} ELSE {})
                    \cup (IF view = "dashboard" THEN {"active-executions"} ELSE {})
           f == IF applied THEN Live!Superseded(fetch, "history") ELSE fetch
<1>1. /\ Live!Room(fetch, Live!Cardinality(kinds))
      /\ seen' = v
      /\ list' = IF applied THEN [page |-> 1, shown |-> v] ELSE list
      /\ fetch' = Live!Started(f, kinds)
      /\ waiting' = waiting \cup {k \in kinds : Live!Running(fetch, k)}
  BY DEF Live!Snapshot, Live!Coalesced
<1>2. /\ kinds \subseteq {"history", "execution-detail"} \/ kinds \subseteq {"active-executions"}
      /\ "history" \in kinds <=> view = "runs" /\ page # 1
      /\ "active-executions" \in kinds <=> view = "dashboard"
  OBVIOUS
<1>3. /\ Live!Cardinality(kinds) = Cardinality(kinds)
  BY DEF Cardinality, Live!Cardinality
<1>4. /\ kinds # {} => Live!Room(fetch, 1)
      /\ {"history", "execution-detail"} \subseteq kinds => Live!Room(fetch, 2)
  <2> HIDE DEF kinds
  <2>1. Live!Room(fetch, Cardinality(kinds))
    BY <1>1, <1>3
  <2>2. CASE kinds = {"history"} \/ kinds = {"execution-detail"} \/ kinds = {"active-executions"}
    <3>1. Cardinality(kinds) = 1
      BY <2>2, FS_Singleton
    <3> QED
      BY <2>1, <2>2, <3>1
  <2>3. CASE kinds = {"history", "execution-detail"}
    <3>1. Cardinality({"history"}) = 1 /\ IsFiniteSet({"history"}) /\ "execution-detail" \notin {"history"}
      BY FS_Singleton
    <3>2. Cardinality({"history"} \cup {"execution-detail"}) = 2
      BY <3>1, FS_AddElement
    <3>3. kinds = {"history"} \cup {"execution-detail"}
      BY <2>3
    <3>4. Live!Room(fetch, 2)
      BY <2>1, <3>2, <3>3
    <3>5. Live!Room(fetch, 1)
      <4>1. Live!Cardinality({r \in Requests : fetch[r] = Live!Idle}) \in Nat
        <5>1. IsFiniteSet({r \in Requests : fetch[r] = Live!Idle})
          BY ViewAssumption, FS_Subset
        <5>2. Cardinality({r \in Requests : fetch[r] = Live!Idle}) \in Nat
          BY <5>1, FS_CardinalityType
        <5> QED
          BY <5>2 DEF Cardinality, Live!Cardinality
      <4> QED
        BY <3>4, <4>1 DEF Live!Room
    <3> QED
      BY <3>4, <3>5
  <2>4. CASE kinds = {}
    BY <2>4
  <2> QED
    BY <1>2, <2>2, <2>3, <2>4
<1>5. /\ Good(f, selected)
      /\ applied => CurrentOf(f, "history") = {}
      /\ ~applied => f = fetch
      /\ \A k \in LiveKinds : Live!Running(fetch, k) <=> Live!Running(f, k)
      /\ \A r \in Requests : f[r] = Live!Idle <=> fetch[r] = Live!Idle
  <2>1. CASE applied
    <3> DEFINE g == Live!Superseded(fetch, "history")
    <3>0. f = g /\ "history" \in LiveKinds /\ "execution-detail" \in LiveKinds \ {"history"}
      BY <2>1 DEF LiveKinds
    <3>1. /\ g \in Fetches /\ OneCurrent(g) /\ CurrentOf(g, "history") = {}
          /\ \A k \in LiveKinds \ {"history"} : Same(fetch, g, k)
          /\ \A k : Live!Running(fetch, k) <=> Live!Running(g, k)
          /\ \A r \in Requests : g[r] = Live!Idle <=> fetch[r] = Live!Idle
      BY <3>0, SupersededKeeps DEF Good
    <3> HIDE DEF g
    <3>2. Details(g, selected)
      BY <3>0, <3>1 DEF Good, Details, Same
    <3> HIDE DEF applied, f
    <3> QED
      BY <2>1, <3>0, <3>1, <3>2 DEF Good
  <2>2. CASE ~applied
    <3>1. f = fetch
      BY <2>2
    <3> HIDE DEF applied, f
    <3> QED
      BY <2>2, <3>1
  <2> QED
    BY <2>1, <2>2
<1> HIDE DEF f, kinds
<1>6. /\ kinds # {} => \E r \in Requests : f[r] = Live!Idle
      /\ {"history", "execution-detail"} \subseteq kinds =>
           \E r \in Requests : \E q \in Requests : f[r] = Live!Idle /\ f[q] = Live!Idle /\ r # q
  <2>1. kinds # {} => \E r \in Requests : fetch[r] = Live!Idle
    BY <1>4, RoomFor
  <2>2. {"history", "execution-detail"} \subseteq kinds =>
          \E r \in Requests : \E q \in Requests : fetch[r] = Live!Idle /\ fetch[q] = Live!Idle /\ r # q
    BY <1>4, RoomFor
  <2> QED
    BY <1>5, <2>1, <2>2
<1> DEFINE g == Live!Started(f, kinds)
<1>7. /\ Good(g, selected)
      /\ \A k \in LiveKinds \ kinds : Same(f, g, k)
      /\ \A k \in kinds \ {"execution-detail"} :
           (Live!Running(f, k) /\ Live!Running(g, k)) \/ \A s : Underway(g, k, s)
  BY <1>2, <1>5, <1>6, StartedKeeps
<1>8. fetch' = g
  BY <1>1
<1> HIDE DEF g
<1>0. "history" \in LiveKinds /\ "active-executions" \in LiveKinds
  BY DEF LiveKinds
<1>9. \A k \in kinds \ {"execution-detail"} : k \in LiveKinds => Pending(g, waiting', k) \/ \A s : Underway(g, k, s)
  BY <1>1, <1>5, <1>7 DEF Pending
<1>10. view = "runs" => HistoryFresh(fetch', waiting', list', page', v)
  <2>1. CASE applied
    <3>1. Same(f, g, "history")
      BY <1>0, <1>2, <1>7, <2>1
    <3>2. CurrentOf(g, "history") = {}
      BY <1>5, <2>1, <3>1 DEF Same
    <3> QED
      BY <1>1, <1>8, <2>1, <3>2 DEF HistoryFresh, Fresh
  <2>2. CASE ~applied /\ view = "runs"
    <3>1. "history" \in kinds \ {"execution-detail"}
      BY <1>2, <2>2
    <3> QED
      BY <1>0, <1>8, <1>9, <3>1 DEF HistoryFresh
  <2> QED
    BY <2>1, <2>2
<1>11. view = "dashboard" => ActiveFresh(fetch', waiting', queue', v)
  BY <1>0, <1>2, <1>8, <1>9 DEF ActiveFresh
<1> QED
  BY <1>1, <1>7, <1>8, <1>10, <1>11 DEF ViewFresh

\* What happens at the server and to the stream.
LEMMA StreamKeeps ==
  ASSUME LiveInv, Live!Change \/ Live!Connect \/ Live!Push \/ Live!Break
  PROVE  LiveInv'
<1> USE DEF Live!server, Live!browser
<1>0. /\ version \in Nat /\ newest \in Nat /\ newest <= version /\ stream \in Seq(Nat \cup {Connected})
      /\ Connected \notin Nat /\ \A i \in DOMAIN stream : stream[i] \in Nat => stream[i] <= newest
  BY ViewAssumption DEF LiveInv, StreamInv
<1>1. UNCHANGED <<seen, view, page, list, queue, selected, detail, fetch, waiting>>
  BY DEF Live!Change, Live!Connect, Live!Push, Live!Break
<1>2. Good(fetch', selected') /\ selected' \in Persons /\ detail' \in {Nothing, selected'}
  BY <1>1 DEF LiveInv
<1>3. ViewFresh'
  BY <1>1 DEF LiveInv, ViewFresh
<1>4. CASE Live!Change
  <2>1. version' \in Nat /\ newest' \in Nat /\ newest' <= version' /\ newest <= newest'
    BY <1>0, <1>4 DEF Live!Change
  <2>2. UNCHANGED <<linked, sent, stream, seen>>
    BY <1>4 DEF Live!Change
  <2>3. \A n \in Nat : n <= newest => n <= newest'
    BY <1>0, <2>1
  <2> QED
    BY <2>1, <2>2, <2>3, <1>2, <1>3 DEF LiveInv, StreamInv
<1>5. CASE Live!Connect
  <2> DEFINE v == <<Connected, newest>>
  <2>1. /\ v \in Seq(Nat \cup {Connected}) /\ v # <<>> /\ v[Len(v)] = newest
        /\ \A i \in DOMAIN v : v[i] \in Nat => v[i] <= newest
    BY <1>0
  <2>2. stream' = v /\ sent' = newest /\ UNCHANGED <<version, newest, seen>>
    BY <1>5 DEF Live!Connect
  <2> HIDE DEF v
  <2> QED
    BY <1>0, <1>2, <1>3, <2>1, <2>2 DEF LiveInv, StreamInv
<1>6. CASE Live!Push
  <2> DEFINE v == Append(stream, newest)
  <2>1. /\ v \in Seq(Nat \cup {Connected}) /\ v # <<>> /\ v[Len(v)] = newest
        /\ \A i \in DOMAIN v : v[i] \in Nat => v[i] <= newest
    <3>1. /\ v \in Seq(Nat \cup {Connected}) /\ Len(v) = Len(stream) + 1 /\ v[Len(v)] = newest
          /\ \A i \in 1 .. Len(stream) : v[i] = stream[i]
      BY <1>0, AppendProperties
    <3>2. Len(stream) \in Nat /\ DOMAIN stream = 1 .. Len(stream) /\ DOMAIN v = 1 .. Len(v)
      BY <1>0, <3>1
    <3> HIDE DEF v
    <3>3. v # <<>>
      BY <3>1, <3>2
    <3> QED
      BY <1>0, <3>1, <3>2, <3>3
  <2>2. stream' = v /\ sent' = newest /\ UNCHANGED <<version, newest, seen>>
    BY <1>6 DEF Live!Push
  <2> HIDE DEF v
  <2> QED
    BY <1>0, <1>2, <1>3, <2>1, <2>2 DEF LiveInv, StreamInv
<1>7. CASE Live!Break
  <2>1. stream' = <<>> /\ ~linked' /\ UNCHANGED <<version, newest, seen>>
    BY <1>7 DEF Live!Break
  <2> QED
    BY <1>0, <1>2, <1>3, <2>1 DEF LiveInv, StreamInv
<1> QED
  BY <1>4, <1>5, <1>6, <1>7

\* An event arrives.
LEMMA ReceiveKeeps ==
  ASSUME LiveInv, Live!Receive
  PROVE  LiveInv'
<1> USE DEF Live!server
<1>0. /\ linked /\ stream # <<>> /\ stream' = Tail(stream)
      /\ UNCHANGED <<version, newest, linked, sent, view, page, queue, selected, detail>>
  BY DEF Live!Receive
<1>1. /\ version \in Nat /\ newest \in Nat /\ newest <= version /\ stream \in Seq(Nat \cup {Connected})
      /\ Connected \notin Nat /\ Nothing \notin Nat /\ Nothing # Connected
      /\ \A i \in DOMAIN stream : stream[i] \in Nat => stream[i] <= newest
      /\ sent \in Nat /\ sent <= newest /\ stream[Len(stream)] = sent
      /\ seen \in Nat \cup {Nothing} /\ (seen \in Nat => seen <= newest)
  BY <1>0, ViewAssumption DEF LiveInv, StreamInv
<1> DEFINE v == Tail(stream)
           h == Head(stream)
<1>2. /\ v \in Seq(Nat \cup {Connected}) /\ h \in Nat \cup {Connected}
      /\ \A i \in DOMAIN v : v[i] \in Nat => v[i] <= newest
      /\ h \in Nat => h <= newest
      /\ IF v = <<>> THEN h = sent ELSE v[Len(v)] = sent
  <2>1. /\ Len(stream) \in Nat \ {0} /\ DOMAIN stream = 1 .. Len(stream) /\ h = stream[1]
        /\ h \in Nat \cup {Connected}
    BY <1>0, <1>1
  <2>2. v \in Seq(Nat \cup {Connected}) /\ Len(v) = Len(stream) - 1 /\ \A i \in 1 .. Len(v) : v[i] = stream[i + 1]
    BY <1>0, <1>1, HeadTailProperties
  <2> HIDE DEF v, h
  <2>3. DOMAIN v = 1 .. Len(v) /\ (v = <<>> <=> Len(v) = 0)
    BY <2>2, EmptySeq
  <2>4. h \in Nat => h <= newest
    BY <1>1, <2>1
  <2>5. \A i \in DOMAIN v : v[i] \in Nat => v[i] <= newest
    <3> SUFFICES ASSUME NEW i \in DOMAIN v PROVE v[i] \in Nat => v[i] <= newest
      OBVIOUS
    <3>1. i + 1 \in DOMAIN stream /\ v[i] = stream[i + 1]
      BY <2>1, <2>2, <2>3
    <3> QED
      BY <1>1, <3>1
  <2>6. v = <<>> => h = sent
    <3>0. \A m \in Nat \ {0} : m - 1 = 0 => m = 1
      OBVIOUS
    <3>a. v = <<>> => Len(stream) - 1 = 0
      BY <2>2, <2>3, Zenon
    <3>1. v = <<>> => Len(stream) = 1
      BY <2>1, <3>0, <3>a, Zenon
    <3> QED
      BY <1>1, <2>1, <3>1
  <2>7. v # <<>> => v[Len(v)] = sent
    <3> SUFFICES ASSUME v # <<>> PROVE v[Len(v)] = sent
      OBVIOUS
    <3>1. Len(v) \in 1 .. Len(v) /\ Len(v) + 1 = Len(stream)
      BY <2>1, <2>2, <2>3
    <3>2. v[Len(v)] = stream[Len(v) + 1]
      BY <2>2, <3>1
    <3> QED
      BY <1>1, <3>1, <3>2
  <2> QED
    BY <2>1, <2>2, <2>4, <2>5, <2>6, <2>7
<1>3. stream' = v
  BY <1>0
<1>4. Good(fetch, selected) /\ selected \in Persons /\ detail \in {Nothing, selected} /\ ViewFresh
  BY DEF LiveInv
<1>5. \/ h = Connected /\ seen' = Nothing /\ UNCHANGED <<list, fetch, waiting>>
      \/ h = seen /\ UNCHANGED <<seen, list, fetch, waiting>>
      \/ h \notin {Connected, seen} /\ Live!Snapshot(h)
  BY DEF Live!Receive
<1> HIDE DEF v, h
<1>6. Good(fetch', selected') /\ ViewFresh' /\ IF h = Connected THEN seen' = Nothing ELSE seen' = h
  <2>1. CASE h = Connected /\ seen' = Nothing /\ UNCHANGED <<list, fetch, waiting>>
    BY <1>0, <1>1, <1>4, <2>1 DEF ViewFresh
  <2>2. CASE h = seen /\ UNCHANGED <<seen, list, fetch, waiting>>
    <3>1. seen # Connected
      BY <1>1
    <3> QED
      BY <1>0, <1>4, <2>2, <3>1 DEF ViewFresh
  <2>3. CASE h \notin {Connected, seen} /\ Live!Snapshot(h)
    <3>1. h \in Nat /\ UNCHANGED <<view, page, queue, selected>>
      BY <1>0, <1>2, <2>3
    <3> QED
      BY <1>4, <2>3, <3>1, SnapshotKeeps
  <2> QED
    BY <1>5, <2>1, <2>2, <2>3
<1>7. StreamInv'
  <2>1. seen' \in Nat \cup {Nothing} /\ (seen' \in Nat => seen' <= newest)
    BY <1>1, <1>2, <1>6
  <2>2. v = <<>> => seen' = sent
    BY <1>1, <1>2, <1>6
  <2> QED
    BY <1>0, <1>1, <1>2, <1>3, <2>1, <2>2 DEF StreamInv
<1> QED
  BY <1>0, <1>4, <1>6, <1>7 DEF LiveInv

\* The server reads for a request.
LEMMA ServeKeeps ==
  ASSUME LiveInv, NEW r \in Requests, Live!Serve(r)
  PROVE  LiveInv'
<1> USE DEF Live!server
<1>1. /\ fetch[r] # Live!Idle /\ fetch' = [fetch EXCEPT ![r].read = Append(fetch[r].read, version)]
      /\ UNCHANGED <<version, newest, linked, sent, stream, seen, view, page, list, queue, selected, detail, waiting>>
  BY DEF Live!Serve
<1>2. /\ fetch \in Fetches /\ OneCurrent(fetch) /\ Details(fetch, selected) /\ StreamInv /\ ViewFresh
      /\ selected \in Persons /\ detail \in {Nothing, selected}
  BY DEF LiveInv, Good
<1> DEFINE q == fetch[r]
           g == fetch'
<1>3. q \in Queries
  BY <1>1, <1>2, QueryOrIdle
<1>4. /\ g \in Fetches /\ g[r].kind = q.kind /\ g[r].coordinated = q.coordinated /\ g[r].current = q.current
      /\ g[r].id = q.id /\ g[r].read = Append(q.read, version) /\ \A n \in Requests \ {r} : g[n] = fetch[n]
  <2> DEFINE new == [q EXCEPT !.read = Append(q.read, version)]
  <2>0. version \in Nat
    BY <1>2 DEF StreamInv
  <2>1. /\ new \in Queries /\ new.kind = q.kind /\ new.coordinated = q.coordinated /\ new.current = q.current
        /\ new.id = q.id /\ new.read = Append(q.read, version)
    <3>1. q.read \in Seq(Nat)
      BY <1>3 DEF Queries
    <3>2. Append(q.read, version) \in Seq(Nat)
      BY <2>0, <3>1
    <3> DEFINE rd == Append(q.read, version)
    <3> HIDE DEF q, rd
    <3> QED
      BY <1>3, <3>2 DEF Queries, rd
  <2>2. g = [fetch EXCEPT ![r] = new]
    BY <1>1
  <2> HIDE DEF new, q, g
  <2> QED
    BY <1>2, <2>1, <2>2 DEF Fetches
<1> HIDE DEF g, q
<1>5. \A k : CurrentOf(g, k) = CurrentOf(fetch, k)
  BY <1>4 DEF CurrentOf, q
<1>6. \A k : Live!Running(fetch, k) => Live!Running(g, k)
  BY <1>4 DEF Live!Running, q
<1>7. OneCurrent(g) /\ Details(g, selected)
  <2>1. \A n \in CurrentOf(fetch, "execution-detail") : g[n].id = fetch[n].id
    BY <1>4 DEF CurrentOf, q
  <2> QED
    BY <1>2, <1>5, <2>1 DEF OneCurrent, Details
<1>8. \A k \in LiveKinds : seen \in Nat /\ Underway(fetch, k, seen) => Underway(g, k, seen)
  <2> SUFFICES ASSUME NEW k \in LiveKinds, seen \in Nat, Underway(fetch, k, seen) PROVE Underway(g, k, seen)
    OBVIOUS
  <2>1. PICK n \in CurrentOf(fetch, k) : \A i \in DOMAIN fetch[n].read : fetch[n].read[i] >= seen
    BY DEF Underway
  <2>2. n \in CurrentOf(g, k) /\ n \in Requests
    BY <1>5, <2>1 DEF CurrentOf
  <2>3. CASE n # r
    BY <1>4, <2>1, <2>2, <2>3 DEF Underway
  <2>4. CASE n = r
    <3> DEFINE s == q.read
               t == Append(q.read, version)
    <3>1. s \in Seq(Nat) /\ version \in Nat /\ version >= seen
      BY <1>2, <1>3 DEF Queries, StreamInv
    <3>2. /\ Len(t) = Len(s) + 1 /\ t[Len(t)] = version /\ t \in Seq(Nat)
          /\ \A i \in 1 .. Len(s) : t[i] = s[i]
      BY <3>1, AppendProperties
    <3>3. \A i \in DOMAIN s : s[i] >= seen
      BY <2>1, <2>4 DEF q
    <3> HIDE DEF s, t
    <3>4. Len(s) \in Nat /\ DOMAIN s = 1 .. Len(s) /\ DOMAIN t = 1 .. Len(s) + 1
      BY <3>1, <3>2
    <3>5. \A i \in DOMAIN t : t[i] >= seen
      <4> SUFFICES ASSUME NEW i \in DOMAIN t PROVE t[i] >= seen
        OBVIOUS
      <4>1. CASE i \in 1 .. Len(s)
        BY <3>2, <3>3, <3>4, <4>1
      <4>2. CASE i = Len(s) + 1
        BY <3>1, <3>2, <4>2
      <4> QED
        BY <3>4, <4>1, <4>2
    <3>6. g[r].read = t
      BY <1>4 DEF t
    <3> QED
      BY <2>2, <2>4, <3>5, <3>6 DEF Underway
  <2> QED
    BY <2>3, <2>4
<1>9. \A k \in LiveKinds : Pending(fetch, waiting, k) => Pending(g, waiting, k)
  BY <1>6 DEF Pending
<1>10. /\ seen \in Nat /\ view = "runs" => HistoryFresh(g, waiting, list, page, seen)
       /\ seen \in Nat /\ view = "dashboard" => ActiveFresh(g, waiting, queue, seen)
  BY <1>2, <1>5, <1>8, <1>9 DEF ViewFresh, HistoryFresh, ActiveFresh, LiveKinds
<1>11. g = fetch'
  BY DEF g
<1>12. ViewFresh'
  BY <1>1, <1>10, <1>11 DEF ViewFresh
<1>13. StreamInv'
  BY <1>1, <1>2 DEF StreamInv
<1> QED
  BY <1>1, <1>2, <1>4, <1>7, <1>11, <1>12, <1>13 DEF LiveInv, Good

\* A request is over: the others of its kind and all of other kinds are as they were.
LEMMA FreedKeeps ==
  ASSUME NEW f \in Fetches, OneCurrent(f), NEW r \in Requests, f[r] # Live!Idle, NEW x, Details(f, x)
  PROVE  LET h == [f EXCEPT ![r] = Live!Idle] IN
         /\ Good(h, x) /\ h[r] = Live!Idle /\ \A n \in Requests \ {r} : h[n] = f[n]
         /\ \A k \in LiveKinds \ {f[r].kind} : Same(f, h, k)
         /\ \A k \in LiveKinds : CurrentOf(h, k) = CurrentOf(f, k) \ {r}
         /\ \A k \in LiveKinds : Live!Running(f, k) => Live!Running(h, k) \/ (f[r].kind = k /\ f[r].coordinated)
<1> DEFINE h == [f EXCEPT ![r] = Live!Idle]
<1>1. h \in Fetches /\ h[r] = Live!Idle /\ \A n \in Requests \ {r} : h[n] = f[n]
  BY DEF Fetches
<1>2. h[r].kind = "none" /\ "none" \notin LiveKinds
  BY <1>1 DEF Live!Idle, LiveKinds
<1> HIDE DEF h
<1>3. \A k \in LiveKinds : CurrentOf(h, k) = CurrentOf(f, k) \ {r}
  BY <1>1, <1>2 DEF CurrentOf
<1>4. \A k \in LiveKinds : Live!Running(f, k) => Live!Running(h, k) \/ (f[r].kind = k /\ f[r].coordinated)
  BY <1>1 DEF Live!Running
<1>5. ASSUME NEW k \in LiveKinds \ {f[r].kind} PROVE Same(f, h, k)
  <2>1. r \notin CurrentOf(f, k)
    BY DEF CurrentOf
  <2>2. CurrentOf(h, k) = CurrentOf(f, k) /\ CurrentOf(f, k) \subseteq Requests \ {r}
    BY <1>3, <2>1 DEF CurrentOf
  <2> QED
    BY <1>1, <1>4, <2>2 DEF Same
<1>6. OneCurrent(h)
  BY <1>3 DEF OneCurrent
<1>7. Details(h, x)
  <2>1. CurrentOf(h, "execution-detail") = CurrentOf(f, "execution-detail") \ {r}
    BY <1>3 DEF LiveKinds
  <2>2. CurrentOf(f, "execution-detail") \subseteq Requests
    BY DEF CurrentOf
  <2> QED
    BY <1>1, <2>1, <2>2 DEF Details
<1> QED
  BY <1>1, <1>3, <1>4, <1>5, <1>6, <1>7 DEF h, Good

\* An answer or a failure arrives.
LEMMA AnswerKeeps ==
  ASSUME LiveInv, NEW r \in Requests, Live!Answer(r)
  PROVE  LiveInv'
<1> USE DEF Live!server
<1> DEFINE q == fetch[r]
           h == [fetch EXCEPT ![r] = Live!Idle]
           again == q.coordinated /\ q.kind \in waiting
<1>1. /\ q # Live!Idle /\ Len(q.read) = Live!Reads(q.kind)
      /\ waiting' = (IF q.coordinated THEN waiting \ {q.kind} ELSE waiting)
      /\ fetch' = (IF again /\ Live!Relevant(q.kind) THEN Live!Refreshed(h, q.kind, detail') ELSE h)
      /\ UNCHANGED <<version, newest, linked, sent, stream, seen, view, page, selected>>
  BY DEF Live!Answer, Live!Settle
<1>2. PICK value \in {Live!Range(q.read), {Failed}} :
        /\ list' = IF q.kind = "history" /\ q.current
                   THEN [page |-> page, shown |-> CHOOSE v \in value : TRUE] ELSE list
        /\ queue' = IF q.kind = "active-executions" /\ q.current THEN value ELSE queue
        /\ detail' = IF q.kind = "execution-detail" /\ q.current /\ value # {Failed} THEN q.id ELSE detail
  BY DEF Live!Answer
<1>3. /\ fetch \in Fetches /\ OneCurrent(fetch) /\ Details(fetch, selected) /\ StreamInv /\ ViewFresh
      /\ selected \in Persons /\ detail \in {Nothing, selected}
  BY DEF LiveInv, Good
<1>4. q \in Queries /\ q.kind \in LiveKinds
  BY <1>1, <1>3, QueryOrIdle
<1>5. /\ Good(h, selected) /\ h[r] = Live!Idle /\ \A n \in Requests \ {r} : h[n] = fetch[n]
      /\ \A k \in LiveKinds \ {q.kind} : Same(fetch, h, k)
      /\ \A k \in LiveKinds : CurrentOf(h, k) = CurrentOf(fetch, k) \ {r}
      /\ \A k \in LiveKinds : Live!Running(fetch, k) => Live!Running(h, k) \/ (q.kind = k /\ q.coordinated)
  BY <1>1, <1>3, FreedKeeps
<1>6. q.current <=> r \in CurrentOf(fetch, q.kind)
  BY DEF CurrentOf
<1>7. detail' \in {Nothing, selected}
  <2>1. CASE q.kind = "execution-detail" /\ q.current
    <3>1. q.id = selected
      BY <1>3, <1>6, <2>1 DEF Details
    <3> QED
      BY <1>2, <1>3, <3>1
  <2>2. CASE ~(q.kind = "execution-detail" /\ q.current)
    BY <1>2, <1>3, <2>2
  <2> QED
    BY <2>1, <2>2
<1> HIDE DEF h, q
<1>8. /\ Good(fetch', selected)
      /\ \A k \in LiveKinds \ {q.kind} : Same(fetch, fetch', k)
      /\ again /\ Live!Relevant(q.kind) /\ q.kind # "execution-detail" => \A s : Underway(fetch', q.kind, s)
      /\ ~again => fetch' = h
  <2>1. CASE again /\ Live!Relevant(q.kind)
    <3> DEFINE g == Live!Refreshed(h, q.kind, detail')
    <3>1. \E n \in Requests : h[n] = Live!Idle
      BY <1>5
    <3>2. /\ Good(g, selected)
          /\ q.kind # "execution-detail" => \A s : Underway(g, q.kind, s)
          /\ \A k \in LiveKinds \ {q.kind} : Same(h, g, k)
      BY <1>3, <1>4, <1>5, <3>1, RefreshedKeeps
    <3>3. fetch' = g
      BY <1>1, <2>1
    <3> HIDE DEF g
    <3>4. \A k \in LiveKinds \ {q.kind} : Same(fetch, g, k)
      BY <1>5, <3>2, SameAgain
    <3> QED
      BY <2>1, <3>2, <3>3, <3>4
  <2>2. CASE ~(again /\ Live!Relevant(q.kind))
    BY <1>1, <1>5, <2>2
  <2> QED
    BY <2>1, <2>2
<1>9. \A k \in LiveKinds \ {q.kind} : k \in waiting => k \in waiting'
  BY <1>1
<1>10. ASSUME NEW k \in {"history", "active-executions"}, q.kind = k, Live!Relevant(k), NEW s
       PROVE  /\ Pending(fetch, waiting, k) => Pending(fetch', waiting', k) \/ Underway(fetch', k, s)
              /\ Underway(fetch, k, s) =>
                   \/ Underway(fetch', k, s)
                   \/ CurrentOf(fetch', k) = {} /\ q.current /\ \A i \in DOMAIN q.read : q.read[i] >= s
              /\ CurrentOf(fetch, k) = {} => ~q.current /\ (Underway(fetch', k, s) \/ CurrentOf(fetch', k) = {})
  <2>0. k \in LiveKinds /\ k # "execution-detail"
    BY DEF LiveKinds
  <2>1. CASE again
    <3>1. Underway(fetch', k, s)
      BY <1>8, <1>10, <2>0, <2>1
    <3> QED
      BY <1>6, <1>10, <3>1
  <2>2. CASE ~again
    <3>1. fetch' = h /\ CurrentOf(h, k) = CurrentOf(fetch, k) \ {r}
      BY <1>5, <1>8, <2>0, <2>2
    <3>2. Pending(fetch, waiting, k) => Pending(h, waiting', k)
      BY <1>1, <1>5, <1>10, <2>0, <2>2 DEF Pending
    <3>3. Underway(fetch, k, s) =>
            Underway(h, k, s) \/ (CurrentOf(h, k) = {} /\ q.current /\ \A i \in DOMAIN q.read : q.read[i] >= s)
      <4> SUFFICES ASSUME Underway(fetch, k, s)
                   PROVE  Underway(h, k, s) \/ (CurrentOf(h, k) = {} /\ q.current /\ \A i \in DOMAIN q.read : q.read[i] >= s)
        OBVIOUS
      <4>1. PICK n \in CurrentOf(fetch, k) : \A i \in DOMAIN fetch[n].read : fetch[n].read[i] >= s
        BY DEF Underway
      <4>2. CASE n = r
        <5>1. CurrentOf(fetch, k) = {r}
          BY <1>3, <2>0, <4>1, <4>2 DEF OneCurrent
        <5>2. q.current
          BY <1>6, <1>10, <4>1, <4>2
        <5> QED
          BY <3>1, <4>1, <4>2, <5>1, <5>2 DEF q
      <4>3. CASE n # r
        <5>1. n \in CurrentOf(h, k) /\ n \in Requests \ {r}
          BY <3>1, <4>1, <4>3 DEF CurrentOf
        <5>2. h[n] = fetch[n]
          BY <1>5, <5>1
        <5> QED
          BY <4>1, <5>1, <5>2 DEF Underway
      <4> QED
        BY <4>2, <4>3
    <3>4. CurrentOf(fetch, k) = {} => ~q.current /\ CurrentOf(h, k) = {}
      BY <1>6, <1>10, <3>1
    <3> QED
      BY <3>1, <3>2, <3>3, <3>4
  <2> QED
    BY <2>1, <2>2
<1>11. ASSUME NEW k \in {"history", "active-executions"}, q.kind = k, NEW s \in Nat, \A i \in DOMAIN q.read : q.read[i] >= s
       PROVE  value # {} /\ \A v \in value : Fresh(v, s)
  <2>1. q.read \in Seq(Nat) /\ Len(q.read) >= 1
    BY <1>1, <1>4, <1>11 DEF Queries, Live!Reads
  <2>2. CASE value = {Failed}
    BY <2>2 DEF Fresh
  <2>3. CASE value = Live!Range(q.read)
    <3>1. value = {q.read[i] : i \in DOMAIN q.read}
      BY <2>3 DEF Live!Range
    <3>2. 1 \in DOMAIN q.read /\ \A i \in DOMAIN q.read : q.read[i] \in Nat
      BY <2>1
    <3> QED
      BY <1>11, <3>1, <3>2 DEF Fresh
  <2> QED
    BY <1>2, <2>2, <2>3
<1>12. seen \in Nat /\ view = "runs" => HistoryFresh(fetch', waiting', list', page, seen)
  <2> SUFFICES ASSUME seen \in Nat, view = "runs" PROVE HistoryFresh(fetch', waiting', list', page, seen)
    OBVIOUS
  <2>0. HistoryFresh(fetch, waiting, list, page, seen) /\ "history" \in LiveKinds
    BY <1>3 DEF ViewFresh, LiveKinds
  <2>1. CASE q.kind # "history"
    BY <1>2, <1>8, <1>9, <2>0, <2>1, FreshStays
  <2>2. CASE q.kind = "history"
    <3>0. Live!Relevant("history")
      BY DEF Live!Relevant
    <3>1. /\ Pending(fetch, waiting, "history") => Pending(fetch', waiting', "history") \/ Underway(fetch', "history", seen)
          /\ Underway(fetch, "history", seen) =>
               \/ Underway(fetch', "history", seen)
               \/ CurrentOf(fetch', "history") = {} /\ q.current /\ \A i \in DOMAIN q.read : q.read[i] >= seen
          /\ CurrentOf(fetch, "history") = {} =>
               ~q.current /\ (Underway(fetch', "history", seen) \/ CurrentOf(fetch', "history") = {})
      BY <1>10, <2>2, <3>0
    <3>2. CASE CurrentOf(fetch', "history") = {} /\ q.current /\ \A i \in DOMAIN q.read : q.read[i] >= seen
      <4>1. value # {} /\ \A v \in value : Fresh(v, seen)
        BY <1>11, <2>2, <3>2
      <4>2. list' = [page |-> page, shown |-> CHOOSE v \in value : TRUE]
        BY <1>2, <2>2, <3>2
      <4>3. (CHOOSE v \in value : TRUE) \in value
        BY <4>1
      <4> QED
        BY <3>2, <4>1, <4>2, <4>3 DEF HistoryFresh
    <3>3. CASE CurrentOf(fetch, "history") = {} /\ list.page = page /\ Fresh(list.shown, seen)
      <4>1. list' = list
        BY <1>2, <3>1, <3>3
      <4> QED
        BY <3>1, <3>3, <4>1 DEF HistoryFresh
    <3> QED
      BY <2>0, <3>1, <3>2, <3>3 DEF HistoryFresh
  <2> QED
    BY <2>1, <2>2
<1>13. seen \in Nat /\ view = "dashboard" => ActiveFresh(fetch', waiting', queue', seen)
  <2> SUFFICES ASSUME seen \in Nat, view = "dashboard" PROVE ActiveFresh(fetch', waiting', queue', seen)
    OBVIOUS
  <2>0. ActiveFresh(fetch, waiting, queue, seen) /\ "active-executions" \in LiveKinds
    BY <1>3 DEF ViewFresh, LiveKinds
  <2>1. CASE q.kind # "active-executions"
    BY <1>2, <1>8, <1>9, <2>0, <2>1, FreshStays
  <2>2. CASE q.kind = "active-executions"
    <3> DEFINE k == "active-executions"
    <3>0. Live!Relevant(k)
      BY DEF Live!Relevant
    <3>1. /\ Pending(fetch, waiting, k) => Pending(fetch', waiting', k) \/ Underway(fetch', k, seen)
          /\ Underway(fetch, k, seen) =>
               \/ Underway(fetch', k, seen)
               \/ CurrentOf(fetch', k) = {} /\ q.current /\ \A i \in DOMAIN q.read : q.read[i] >= seen
          /\ CurrentOf(fetch, k) = {} => ~q.current /\ (Underway(fetch', k, seen) \/ CurrentOf(fetch', k) = {})
      BY <1>10, <2>2, <3>0
    <3>2. CASE CurrentOf(fetch', k) = {} /\ q.current /\ \A i \in DOMAIN q.read : q.read[i] >= seen
      <4>1. value # {} /\ \A v \in value : Fresh(v, seen)
        BY <1>11, <2>2, <3>2
      <4>2. queue' = value
        BY <1>2, <2>2, <3>2
      <4> QED
        BY <3>2, <4>1, <4>2 DEF ActiveFresh
    <3>3. CASE CurrentOf(fetch, k) = {} /\ queue # {} /\ \A v \in queue : Fresh(v, seen)
      <4>1. queue' = queue
        BY <1>2, <3>1, <3>3
      <4> QED
        BY <3>1, <3>3, <4>1 DEF ActiveFresh
    <3> QED
      BY <2>0, <3>1, <3>2, <3>3 DEF ActiveFresh
  <2> QED
    BY <2>1, <2>2
<1>14. StreamInv' /\ ViewFresh'
  BY <1>1, <1>3, <1>12, <1>13 DEF StreamInv, ViewFresh
<1> QED
  BY <1>1, <1>3, <1>7, <1>8, <1>14 DEF LiveInv

\* The person at the browser.
LEMMA MovesKeep ==
  ASSUME LiveInv,
         \/ Live!OpenHistory \/ Live!OpenDashboard \/ Live!OpenOther \/ Live!Close
         \/ \E p \in {1, 2} : Live!Turn(p)
         \/ \E x \in Items : Live!Inspect(x)
  PROVE  LiveInv'
<1> USE DEF Live!server
<1>1. UNCHANGED <<version, newest, linked, sent, stream, seen, waiting>>
  BY DEF Live!OpenHistory, Live!OpenDashboard, Live!OpenOther, Live!Close, Live!Turn, Live!Inspect, Live!MoveTo
<1>2. /\ fetch \in Fetches /\ OneCurrent(fetch) /\ Details(fetch, selected) /\ StreamInv /\ ViewFresh
      /\ selected \in Persons /\ detail \in {Nothing, selected} /\ Nobody \in Persons
  BY DEF LiveInv, Good, Persons
<1>3. StreamInv'
  BY <1>1, <1>2 DEF StreamInv
<1>0. /\ "history" \in LiveKinds /\ "active-executions" \in LiveKinds /\ "execution-detail" \in LiveKinds
      /\ FALSE \in BOOLEAN
  BY DEF LiveKinds
<1>4. ASSUME NEW p, Live!Load(p), view' = "runs", UNCHANGED <<queue, selected, detail>> PROVE LiveInv'
  <2> DEFINE g == Live!Asked(fetch, "history", FALSE, Nobody)
  <2>1. \E r \in Requests : fetch[r] = Live!Idle
    BY <1>4, RoomFor DEF Live!Load
  <2>2. /\ g \in Fetches /\ OneCurrent(g)
        /\ \A s : Underway(g, "history", s)
        /\ \A k \in LiveKinds \ {"history"} : Same(fetch, g, k)
    BY <1>0, <1>2, <2>1, AskedKeeps
  <2>3. fetch' = g
    BY <1>4 DEF Live!Load
  <2> HIDE DEF g
  <2>4. Details(g, selected)
    BY <1>0, <1>2, <2>2 DEF Details, Same
  <2>5. ViewFresh'
    BY <1>4, <2>2, <2>3 DEF ViewFresh, HistoryFresh
  <2> QED
    BY <1>2, <1>3, <1>4, <2>2, <2>3, <2>4, <2>5 DEF LiveInv, Good
<1>5. CASE Live!OpenHistory
  BY <1>4, <1>5 DEF Live!OpenHistory, Live!MoveTo
<1>6. CASE \E p \in {1, 2} : Live!Turn(p)
  BY <1>4, <1>6 DEF Live!Turn, Live!MoveTo
<1>7. CASE Live!OpenOther
  <2>1. view' = "other" /\ UNCHANGED <<fetch, page, list, queue, selected, detail>>
    BY <1>7 DEF Live!OpenOther, Live!MoveTo
  <2>2. ViewFresh'
    BY <2>1 DEF ViewFresh
  <2> QED
    BY <1>2, <1>3, <2>1, <2>2 DEF LiveInv, Good
<1>8. CASE Live!OpenDashboard /\ view = "dashboard"
  <2>1. UNCHANGED <<view, fetch, page, list, queue, selected, detail>>
    BY <1>8 DEF Live!OpenDashboard, Live!MoveTo
  <2>2. ViewFresh'
    BY <1>1, <1>2, <2>1 DEF ViewFresh
  <2> QED
    BY <1>2, <1>3, <2>1, <2>2 DEF LiveInv, Good
<1>9. CASE Live!OpenDashboard /\ view # "dashboard"
  <2> DEFINE g == Live!Asked(fetch, "active-executions", FALSE, Nobody)
  <2>1. \E r \in Requests : fetch[r] = Live!Idle
    BY <1>9, RoomFor DEF Live!OpenDashboard
  <2>2. /\ g \in Fetches /\ OneCurrent(g)
        /\ \A s : Underway(g, "active-executions", s)
        /\ \A k \in LiveKinds \ {"active-executions"} : Same(fetch, g, k)
    BY <1>0, <1>2, <2>1, AskedKeeps
  <2>3. fetch' = g /\ view' = "dashboard" /\ UNCHANGED <<page, list, queue, selected, detail>>
    BY <1>9 DEF Live!OpenDashboard, Live!MoveTo
  <2> HIDE DEF g
  <2>4. Details(g, selected)
    BY <1>0, <1>2, <2>2 DEF Details, Same
  <2>5. ViewFresh'
    BY <2>2, <2>3 DEF ViewFresh, ActiveFresh
  <2> QED
    BY <1>2, <1>3, <2>2, <2>3, <2>4, <2>5 DEF LiveInv, Good
<1>10. ASSUME NEW x \in Items, Live!Inspect(x) PROVE LiveInv'
  <2> DEFINE g == Live!Asked(fetch, "execution-detail", FALSE, x)
  <2>0. x \in Persons
    BY DEF Persons
  <2>1. \E r \in Requests : fetch[r] = Live!Idle
    BY <1>10, RoomFor DEF Live!Inspect
  <2>2. /\ g \in Fetches /\ OneCurrent(g)
        /\ \A r \in CurrentOf(g, "execution-detail") : g[r].id = x
        /\ \A k \in LiveKinds \ {"execution-detail"} : Same(fetch, g, k)
    BY <1>0, <1>2, <2>0, <2>1, AskedKeeps
  <2>3. fetch' = g /\ selected' = x /\ detail' = Nothing /\ UNCHANGED <<view, page, list, queue>>
    BY <1>10 DEF Live!Inspect, Live!MoveTo
  <2> HIDE DEF g
  <2>4. Same(fetch, g, "history") /\ Same(fetch, g, "active-executions")
    BY <2>2 DEF LiveKinds
  <2>5. /\ seen \in Nat /\ view = "runs" => HistoryFresh(g, waiting, list, page, seen)
        /\ seen \in Nat /\ view = "dashboard" => ActiveFresh(g, waiting, queue, seen)
    BY <1>2, <2>4, FreshStays DEF ViewFresh
  <2>6. ViewFresh'
    BY <1>1, <2>3, <2>5 DEF ViewFresh
  <2> QED
    BY <1>3, <2>0, <2>2, <2>3, <2>6 DEF LiveInv, Good, Details
<1>11. CASE Live!Close
  <2> DEFINE g == Live!Superseded(fetch, "execution-detail")
  <2>2. /\ g \in Fetches /\ OneCurrent(g) /\ CurrentOf(g, "execution-detail") = {}
        /\ \A k \in LiveKinds \ {"execution-detail"} : Same(fetch, g, k)
    BY <1>0, <1>2, SupersededKeeps
  <2>3. fetch' = g /\ selected' = Nobody /\ detail' = Nothing /\ UNCHANGED <<view, page, list, queue>>
    BY <1>11 DEF Live!Close, Live!MoveTo
  <2> HIDE DEF g
  <2>4. Same(fetch, g, "history") /\ Same(fetch, g, "active-executions")
    BY <2>2 DEF LiveKinds
  <2>5. /\ seen \in Nat /\ view = "runs" => HistoryFresh(g, waiting, list, page, seen)
        /\ seen \in Nat /\ view = "dashboard" => ActiveFresh(g, waiting, queue, seen)
    BY <1>2, <2>4, FreshStays DEF ViewFresh
  <2>6. ViewFresh'
    BY <1>1, <2>3, <2>5 DEF ViewFresh
  <2> QED
    BY <1>2, <1>3, <2>2, <2>3, <2>6 DEF LiveInv, Good, Details
<1> QED
  BY <1>5, <1>6, <1>7, <1>8, <1>9, <1>10, <1>11

\* Every step keeps the invariant.
LEMMA LiveStep == LiveInv /\ [ArtifactsNext]_<<rest, people, side>> => LiveInv'
<1> SUFFICES ASSUME LiveInv, [ArtifactsNext]_<<rest, people, side>> PROVE LiveInv'
  OBVIOUS
<1>1. CASE UNCHANGED live
  BY <1>1 DEF live, LiveInv, StreamInv, ViewFresh
<1>2. CASE Live!LiveNext
  BY <1>2, StreamKeeps, ReceiveKeeps, ServeKeeps, AnswerKeeps, MovesKeep DEF Live!LiveNext
<1>3. UNCHANGED live \/ Live!LiveNext
  BY DEF ArtifactsNext, rest, people
<1> QED
  BY <1>1, <1>2, <1>3

\* At the beginning the first page is asked for.
LEMMA LiveStart == Live!LiveInit => LiveInv
<1> SUFFICES ASSUME Live!LiveInit PROVE LiveInv
  OBVIOUS
<1> DEFINE f == [r \in Requests |-> Live!Idle]
           g == Live!Asked(f, "history", FALSE, Nobody)
<1>1. f \in Fetches /\ OneCurrent(f) /\ CurrentOf(f, "execution-detail") = {} /\ \E r \in Requests : f[r] = Live!Idle
  <2>1. f \in Fetches /\ \E r \in Requests : f[r] = Live!Idle
    BY ViewAssumption DEF Fetches
  <2>2. \A r \in Requests : f[r].kind = "none"
    BY DEF Live!Idle
  <2>3. \A k \in LiveKinds : CurrentOf(f, k) = {}
    BY <2>2 DEF CurrentOf, LiveKinds
  <2> HIDE DEF f
  <2> QED
    BY <2>1, <2>3 DEF OneCurrent, LiveKinds
<1>2. /\ g \in Fetches /\ OneCurrent(g)
      /\ \A k \in LiveKinds \ {"history"} : Same(f, g, k)
  <2>1. "history" \in LiveKinds /\ Nobody \in Persons /\ FALSE \in BOOLEAN
    BY DEF LiveKinds, Persons
  <2> HIDE DEF f
  <2> QED
    BY <1>1, <2>1, AskedKeeps
<1>3. Live!Idle = [kind |-> "none"]
  BY DEF Live!Idle
<1>4. /\ version = 0 /\ newest = 0 /\ linked = FALSE /\ stream = <<>> /\ seen = Nothing
      /\ selected = Nobody /\ detail = Nothing /\ fetch = g
  BY DEF Live!LiveInit
<1> HIDE DEF f, g
<1>5. Details(g, Nobody)
  BY <1>1, <1>2 DEF Details, Same, LiveKinds
<1> QED
  BY <1>2, <1>4, <1>5, ViewAssumption DEF LiveInv, Good, StreamInv, ViewFresh, Persons

\* What a browser shows is true, whatever is lost, late or answered out of order.
THEOREM ViewsCorrect == ArtifactsSpec => []ViewAgrees
<1>1. ArtifactsInit => LiveInv /\ PanelInv
  BY LiveStart, PanelStart DEF ArtifactsInit
<1>2. (LiveInv /\ PanelInv) /\ [ArtifactsNext]_<<rest, people, side>> => (LiveInv /\ PanelInv)'
  BY LiveStep, PanelStep
<1>3. LiveInv /\ PanelInv => ViewAgrees
  BY LiveTells, PanelTells DEF ViewAgrees
<1> QED
  BY <1>1, <1>2, <1>3, PTL DEF ArtifactsSpec
=============================================================================
