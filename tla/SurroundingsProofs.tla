-------------------------- MODULE SurroundingsProofs --------------------------
(***************************************************************************)
(* What schedules live among: the programs that are installed, the page    *)
(* that is served, the records that refer to each other and the            *)
(* destinations of the files.  Each has an invariant of its own, which no  *)
(* other side of MCSchedule touches.                                       *)
(***************************************************************************)
EXTENDS MCSchedule, ScheduleProofs

-----------------------------------------------------------------------------
(* Programs *)

JobRecord ==
  [state : {"unused", "downloading", "verifying", "verified", "failed", "completed", "lost"},
   archive : {"none", "published", "damaged"}]

\* Who works is the one job, and what it goes on with is the published archive.
JobsOK(f, a) ==
  /\ f \in [Installs -> JobRecord] /\ a \in Installs \cup {NoInstall}
  /\ \A i \in Installs :
       /\ f[i].state \in Installed!Unfinished => a = i
       /\ f[i].state = "verified" => f[i].archive = "published"

\* Nothing is put in place but what was published, and the programs of the other engine
\* stay who put them there.
FilesOK(f, b, done, broken) ==
  /\ f \in [Installed!Engines -> [Installed!Kinds -> {"none", "other", "published", "cut"}]]
  /\ b \in [Installed!Engines -> [Installed!Kinds -> {"none", "other"}]]
  /\ f["mysql"] = b["mysql"]
  /\ done \in BOOLEAN /\ broken \in BOOLEAN
  /\ done => \A k \in Installed!Kinds : f["mariadb"][k] = "published"
  /\ ~broken => \A k \in Installed!Kinds : f["mariadb"][k] \in {b["mariadb"][k], "published"}

ToolsInv == JobsOK(install, activeJob) /\ FilesOK(file, before, completed, trouble)

\* At a start there is what people have put there.
LEMMA ToolsStart == Installed!ToolsInit => ToolsInv
<1> SUFFICES ASSUME Installed!ToolsInit PROVE ToolsInv
  OBVIOUS
<1>1. JobsOK(install, activeJob)
  BY DEF Installed!ToolsInit, JobsOK, JobRecord, Installed!Unused, Installed!Unfinished
<1>2. FilesOK(file, before, completed, trouble)
  BY DEF Installed!ToolsInit, FilesOK, Installed!Engines, Installed!Kinds
<1> QED
  BY <1>1, <1>2 DEF ToolsInv

\* The process ends, and with it what was under way.
LEMMA InstallerDies == ASSUME ToolsInv, Installed!Dies PROVE JobsOK(install', activeJob')
<1>1. install \in [Installs -> JobRecord]
  BY DEF ToolsInv, JobsOK
<1>2. \A i \in Installs : install'[i] \in JobRecord /\ install'[i].state \in {"unused", "lost"}
  BY <1>1 DEF Installed!Dies, JobRecord, Installed!Unused
<1>3. install' \in [Installs -> JobRecord]
  BY <1>2 DEF Installed!Dies
<1> QED
  BY <1>2, <1>3 DEF JobsOK, Installed!Dies, Installed!Unfinished

\* A job begins when no other is under way.
LEMMA JobBegins ==
  ASSUME ToolsInv, NEW i \in Installs, ~Installed!Busy, Installed!Begin(i)
  PROVE  JobsOK(install', activeJob')
<1>1. JobsOK(install, activeJob)
  BY DEF ToolsInv
<1>2. \A j \in Installs : install[j].state \notin Installed!Unfinished
  BY <1>1, TimersAssumption DEF JobsOK, Installed!Busy
<1>3. CASE install' = [install EXCEPT ![i].state = "downloading"] /\ activeJob' = i
  <2>1. install' \in [Installs -> JobRecord]
    BY <1>1, <1>3 DEF JobsOK, JobRecord
  <2>2. install'[i].state = "downloading" /\ \A j \in Installs \ {i} : install'[j] = install[j]
    BY <1>1, <1>3 DEF JobsOK, JobRecord
  <2> QED
    BY <1>1, <1>2, <1>3, <2>1, <2>2 DEF JobsOK
<1> QED
  BY <1>3, InstallerDies DEF Installed!Begin

\* A job ends.
LEMMA JobEnds ==
  ASSUME ToolsInv, NEW i \in Installs, NEW s \in {"failed", "completed"}, Installed!Ends(i, s)
  PROVE  JobsOK(install', activeJob')
<1>1. JobsOK(install, activeJob)
  BY DEF ToolsInv
<1>2. /\ install' = [install EXCEPT ![i].state = s]
      /\ activeJob' = IF activeJob = i THEN NoInstall ELSE activeJob
  BY DEF Installed!Ends
<1>3. install' \in [Installs -> JobRecord]
  BY <1>1, <1>2 DEF JobsOK, JobRecord
<1>4. install'[i].state = s /\ \A j \in Installs \ {i} : install'[j] = install[j]
  BY <1>1, <1>2 DEF JobsOK, JobRecord
<1> QED
  BY <1>1, <1>2, <1>3, <1>4 DEF JobsOK, Installed!Unfinished

\* A download or its verification changes the job alone.
LEMMA JobAdvances ==
  ASSUME ToolsInv, NEW i \in Installs, Installed!Download(i) \/ Installed!Verify(i)
  PROVE  JobsOK(install', activeJob')
<1>1. JobsOK(install, activeJob)
  BY DEF ToolsInv
<1>2. /\ install[i].state \in Installed!Unfinished /\ activeJob' = activeJob
      /\ install' \in [Installs -> JobRecord]
      /\ install'[i].state = "verified" => install'[i].archive = "published"
      /\ \A j \in Installs \ {i} : install'[j] = install[j]
  BY <1>1 DEF JobsOK, JobRecord, Installed!Download, Installed!Verify, Installed!Unfinished
<1> QED
  BY <1>1, <1>2 DEF JobsOK

\* A copy, whole or broken, is of the published archive.
LEMMA CopyFacts ==
  ASSUME ToolsInv, NEW i \in Installs, install[i].state = "verified",
         NEW full, NEW cut, Installed!Copied(i, full, cut)
  PROVE  /\ file' \in [Installed!Engines -> [Installed!Kinds -> {"none", "other", "published", "cut"}]]
         /\ file'["mysql"] = file["mysql"]
         /\ \A k \in full \cap Installed!Kinds : file'["mariadb"][k] = "published"
<1>1. install[i].archive = "published"
  BY DEF ToolsInv, JobsOK
<1>2. file \in [Installed!Engines -> [Installed!Kinds -> {"none", "other", "published", "cut"}]]
  BY DEF ToolsInv, FilesOK
<1> DEFINE new == [k \in Installed!Kinds |-> IF k \in full THEN install[i].archive ELSE IF k \in cut THEN "cut" ELSE file["mariadb"][k]]
<1>3. file' = [file EXCEPT !["mariadb"] = new]
  BY DEF Installed!Copied
<1>4. new \in [Installed!Kinds -> {"none", "other", "published", "cut"}]
  BY <1>1, <1>2 DEF Installed!Engines
<1>5. \A k \in full \cap Installed!Kinds : new[k] = "published"
  BY <1>1
<1> HIDE DEF new
<1> QED
  BY <1>2, <1>3, <1>4, <1>5 DEF Installed!Engines

\* No other side touches them.
LEMMA ToolsStep == ToolsInv /\ [TimersNext]_<<scheduleVars, destinations, catalog, tools, assets, side>> => ToolsInv'
<1> SUFFICES ASSUME ToolsInv, [TimersNext]_<<scheduleVars, destinations, catalog, tools, assets, side>> PROVE ToolsInv'
  OBVIOUS
<1>0. JobsOK(install, activeJob) /\ FilesOK(file, before, completed, trouble)
  BY DEF ToolsInv
<1>1. ASSUME UNCHANGED tools PROVE ToolsInv'
  BY <1>0, <1>1 DEF ToolsInv, JobsOK, FilesOK, tools
<1>2. ASSUME Installed!ToolsNext PROVE ToolsInv'
  <2>1. CASE Installed!Crash
    BY <1>0, <2>1, InstallerDies DEF Installed!Crash, ToolsInv, FilesOK
  <2>2. ASSUME NEW i \in Installs, Installed!StartInstall(i) PROVE ToolsInv'
    <3>1. JobsOK(install', activeJob')
      BY <2>2, JobBegins DEF Installed!StartInstall
    <3>2. UNCHANGED <<file, before, trouble>> /\ completed' \in BOOLEAN /\ (completed' => completed)
      BY <1>0, <2>2 DEF Installed!StartInstall, FilesOK
    <3> QED
      BY <1>0, <3>1, <3>2 DEF ToolsInv, FilesOK
  <2>3. ASSUME NEW i \in Installs, Installed!Repair(i) PROVE ToolsInv'
    <3>1. JobsOK(install', activeJob')
      BY <2>3, JobBegins DEF Installed!Repair
    <3>2. FilesOK(file', before', completed', trouble')
      BY <1>0, <2>3 DEF Installed!Repair, FilesOK, Installed!Engines
    <3> QED
      BY <3>1, <3>2 DEF ToolsInv
  <2>4. ASSUME NEW i \in Installs, Installed!Download(i) \/ Installed!Verify(i) PROVE ToolsInv'
    <3>1. UNCHANGED <<file, before, trouble, completed>>
      BY <2>4 DEF Installed!Download, Installed!Verify
    <3> QED
      BY <1>0, <2>4, <3>1, JobAdvances DEF ToolsInv, FilesOK
  <2>5. ASSUME NEW i \in Installs, Installed!Fail(i) \/ Installed!ExtractFails(i) PROVE ToolsInv'
    <3>1. UNCHANGED <<file, before, trouble, completed>> /\ Installed!Ends(i, "failed")
      BY <2>5 DEF Installed!Fail, Installed!ExtractFails
    <3> QED
      BY <1>0, <3>1, JobEnds DEF ToolsInv, FilesOK
  <2>6. ASSUME NEW i \in Installs, Installed!Copy(i) PROVE ToolsInv'
    <3>1. /\ install[i].state = "verified" /\ Installed!Copied(i, Installed!Kinds, {}) /\ Installed!Ends(i, "completed")
          /\ trouble' = FALSE /\ completed' = TRUE /\ UNCHANGED before
      BY <2>6 DEF Installed!Copy
    <3>2. JobsOK(install', activeJob')
      BY <3>1, JobEnds
    <3>3. /\ file' \in [Installed!Engines -> [Installed!Kinds -> {"none", "other", "published", "cut"}]]
          /\ file'["mysql"] = file["mysql"]
          /\ \A k \in Installed!Kinds : file'["mariadb"][k] = "published"
      BY <3>1, CopyFacts
    <3> QED
      BY <1>0, <3>1, <3>2, <3>3 DEF ToolsInv, FilesOK
  <2>7. ASSUME NEW i \in Installs, Installed!CopyBreaks(i) PROVE ToolsInv'
    <3>1. PICK full \in SUBSET Installed!Kinds, cut \in SUBSET Installed!Kinds : Installed!Copied(i, full, cut)
      BY <2>7 DEF Installed!CopyBreaks
    <3>2. install[i].state = "verified" /\ trouble' = TRUE /\ completed' = FALSE /\ UNCHANGED before
      BY <2>7 DEF Installed!CopyBreaks
    <3>3. JobsOK(install', activeJob')
      BY <2>7, JobEnds, InstallerDies DEF Installed!CopyBreaks
    <3>4. /\ file' \in [Installed!Engines -> [Installed!Kinds -> {"none", "other", "published", "cut"}]]
          /\ file'["mysql"] = file["mysql"]
      BY <3>1, <3>2, CopyFacts
    <3> QED
      BY <1>0, <3>2, <3>3, <3>4 DEF ToolsInv, FilesOK
  <2> QED
    BY <1>2, <2>1, <2>2, <2>3, <2>4, <2>5, <2>6, <2>7 DEF Installed!ToolsNext
<1>3. UNCHANGED tools \/ Installed!ToolsNext
  BY DEF TimersNext
<1> QED
  BY <1>1, <1>2, <1>3

\* Programs are of verified archives or whoever put them there, put in place by one
\* installation at a time, which leaves both engines with working tools, and one that
\* fails before it copies leaves them as they were (backup/tool-installer.service.ts,
\* resolveClientBinary of backup/backup.service.ts).
THEOREM ToolsCorrect == TimersSpec => []ToolsAgree
<1>1. TimersInit => ToolsInv
  BY ToolsStart DEF TimersInit
<1>2. ToolsInv => ToolsAgree
  <2> SUFFICES ASSUME ToolsInv PROVE ToolsAgree
    OBVIOUS
  <2>0. JobsOK(install, activeJob) /\ FilesOK(file, before, completed, trouble)
    BY DEF ToolsInv
  <2>1. Installed!OnlyVerified
    BY <2>0 DEF FilesOK, Installed!OnlyVerified, Installed!Resolved, Installed!Engines
  <2>2. Installed!OneInstall
    <3> DEFINE S == {i \in Installs : install[i].state \in Installed!Unfinished}
    <3>1. \A x, y \in S : x = y
      BY <2>0 DEF JobsOK
    <3> HIDE DEF S
    <3>2. Cardinality(S) <= 1
      BY <3>1, AtMostOne
    <3>3. Installed!Cardinality(S) = Cardinality(S)
      BY DEF Cardinality, Installed!Cardinality
    <3> QED
      BY <3>2, <3>3 DEF S, Installed!OneInstall
  <2>3. Installed!CompletedIsReady
    <3> SUFFICES ASSUME completed PROVE /\ \A e \in Installed!Engines : Installed!Diagnosis(e) = "working"
                                        /\ file["mariadb"]["client"] = file["mariadb"]["dump"]
      BY DEF Installed!CompletedIsReady
    <3>1. \A k \in Installed!Kinds : file["mariadb"][k] = "published" /\ file["mysql"][k] \in {"none", "other"}
      BY <2>0 DEF FilesOK, Installed!Engines
    <3>2. \A e \in Installed!Engines, k \in Installed!Kinds : Installed!Resolved(e, k) \in {"other", "published"}
      BY <3>1 DEF Installed!Resolved, Installed!Engines
    <3>3. \A e \in Installed!Engines, k \in Installed!Kinds : Installed!Probe(e, k) = "working"
      BY <3>2 DEF Installed!Probe
    <3> QED
      BY <3>1, <3>3 DEF Installed!Diagnosis, Installed!Kinds
  <2>4. Installed!KeptUntilReplaced
    BY <2>0 DEF FilesOK, Installed!KeptUntilReplaced, Installed!Engines
  <2> QED
    BY <2>1, <2>2, <2>3, <2>4 DEF ToolsAgree, Installed!ToolsAgree
<1> QED
  BY <1>1, <1>2, ToolsStep, PTL DEF TimersSpec

-----------------------------------------------------------------------------
(* The page *)

Contents == Releases \cup {Absent}

Opened ==
  [page : Releases, whole : BOOLEAN, refers : [Scripts -> Contents], loaded : [Scripts -> Contents], asked : SUBSET Scripts]

\* A page that was read from a whole release refers to its scripts, and has them or
\* nothing.
OwnScripts(shows) ==
  shows.whole => /\ \A s \in Scripts : shows.refers[s] = shows.page
                 /\ \A s \in shows.asked : shows.loaded[s] \in {shows.page, Absent}

PageInv ==
  /\ disk \in [Shown!AllFiles -> Contents]
  /\ memory \in [Shown!AllFiles -> Contents] /\ memory["page"] \in Releases
  /\ whole \in BOOLEAN /\ (whole => \A f \in Shown!AllFiles : memory[f] = memory["page"])
  /\ \A entry \in cache : entry.content = entry.hash /\ entry.content \in Contents
  /\ tab \in [Tabs -> {Shown!Blank} \cup Opened]
  /\ \A t \in Tabs : tab[t] # Shown!Blank => OwnScripts(tab[t])

\* At a start files are of one release, and no page is shown.
LEMMA PageStart == Shown!AssetsInit => PageInv
<1> SUFFICES ASSUME Shown!AssetsInit PROVE PageInv
  OBVIOUS
<1>1. 1 \in Contents /\ "page" \in Shown!AllFiles
  BY TimersAssumption DEF Contents, Shown!AllFiles
<1>2. disk \in [Shown!AllFiles -> Contents] /\ memory = disk /\ \A f \in Shown!AllFiles : memory[f] = 1
  BY <1>1 DEF Shown!AssetsInit
<1> QED
  BY <1>1, <1>2, TimersAssumption DEF PageInv, Shown!AssetsInit

\* A script, or nothing, is answered to a page that asks for it.
LEMMA Answer ==
  ASSUME PageInv, NEW t \in Tabs, NEW s \in Scripts, NEW content \in Contents, tab[t] # Shown!Blank, Shown!Got(t, s, content),
         tab[t].whole => content \in {tab[t].page, Absent}
  PROVE  /\ tab' \in [Tabs -> {Shown!Blank} \cup Opened]
         /\ \A u \in Tabs : tab'[u] # Shown!Blank => OwnScripts(tab'[u])
<1>1. tab \in [Tabs -> {Shown!Blank} \cup Opened] /\ tab[t] \in Opened /\ OwnScripts(tab[t])
  BY DEF PageInv
<1> DEFINE loads == [tab[t].loaded EXCEPT ![s] = content]
           asks == tab[t].asked \cup {s}
           new == [tab[t] EXCEPT !.loaded = loads, !.asked = asks]
<1>2. tab' = [tab EXCEPT ![t] = new]
  BY <1>1 DEF Shown!Got
<1>3. loads \in [Scripts -> Contents] /\ loads[s] = content /\ \A x \in Scripts \ {s} : loads[x] = tab[t].loaded[x]
  BY <1>1 DEF Opened
<1>4. asks \in SUBSET Scripts
  BY <1>1 DEF Opened
<1> HIDE DEF loads
<1>5. /\ new \in Opened /\ new.page = tab[t].page /\ new.whole = tab[t].whole /\ new.refers = tab[t].refers
      /\ new.loaded = loads /\ new.asked = tab[t].asked \cup {s}
  BY <1>1, <1>3, <1>4 DEF Opened
<1> HIDE DEF asks, new
<1>6. OwnScripts(new)
  <2> SUFFICES ASSUME new.whole
               PROVE  /\ \A x \in Scripts : new.refers[x] = new.page
                      /\ \A x \in new.asked : new.loaded[x] \in {new.page, Absent}
    BY DEF OwnScripts
  <2>1. \A x \in Scripts : new.refers[x] = new.page
    BY <1>1, <1>5 DEF OwnScripts
  <2>2. ASSUME NEW x \in new.asked PROVE new.loaded[x] \in {new.page, Absent}
    <3>1. CASE x = s
      BY <1>3, <1>5, <3>1
    <3>2. CASE x # s
      <4>1. x \in tab[t].asked /\ x \in Scripts
        BY <1>1, <1>5, <2>2, <3>2 DEF Opened
      <4> QED
        BY <1>1, <1>3, <1>5, <3>2, <4>1 DEF OwnScripts
    <3> QED
      BY <3>1, <3>2
  <2> QED
    BY <2>1, <2>2
<1>7. tab'[t] = new /\ \A u \in Tabs \ {t} : tab'[u] = tab[u]
  BY <1>1, <1>2
<1>8. tab' \in [Tabs -> {Shown!Blank} \cup Opened]
  BY <1>1, <1>2, <1>5
<1>9. \A u \in Tabs : tab[u] # Shown!Blank => OwnScripts(tab[u])
  BY DEF PageInv
<1> QED
  BY <1>6, <1>7, <1>8, <1>9

\* A page is read with what it refers to.
LEMMA OpenKeeps == ASSUME PageInv, NEW t \in Tabs, Shown!Open(t) PROVE PageInv'
<1> DEFINE new == [page |-> memory["page"], whole |-> whole, refers |-> Shown!Refers,
                   loaded |-> [s \in Scripts |-> Absent], asked |-> {}]
<1>1. tab' = [tab EXCEPT ![t] = new] /\ UNCHANGED <<disk, memory, whole, enabled, cache>>
  BY DEF Shown!Open
<1>2. Shown!Refers \in [Scripts -> Contents] /\ (whole => \A s \in Scripts : Shown!Refers[s] = memory["page"])
  BY DEF PageInv, Shown!Refers, Shown!AllFiles
<1>3. [s \in Scripts |-> Absent] \in [Scripts -> Contents]
  BY DEF Contents
<1>4. new \in Opened
  BY <1>2, <1>3 DEF PageInv, Opened
<1>5. OwnScripts(new)
  BY <1>2 DEF OwnScripts
<1> HIDE DEF new
<1>6. tab' \in [Tabs -> {Shown!Blank} \cup Opened] /\ tab'[t] = new /\ \A u \in Tabs \ {t} : tab'[u] = tab[u]
  BY <1>1, <1>4 DEF PageInv
<1>7. \A u \in Tabs : tab'[u] # Shown!Blank => OwnScripts(tab'[u])
  BY <1>5, <1>6 DEF PageInv
<1> QED
  BY <1>1, <1>6, <1>7 DEF PageInv

\* What a cache answers is what has the hash the page refers to.
LEMMA CacheAnswers == ASSUME PageInv, NEW t \in Tabs, NEW s \in Scripts, Shown!FromCache(t, s) PROVE PageInv'
<1>1. PICK entry \in cache : entry.script = s /\ entry.hash = tab[t].refers[s] /\ Shown!Got(t, s, entry.content)
  BY DEF Shown!FromCache
<1>2. tab[t] # Shown!Blank /\ UNCHANGED <<disk, memory, whole, enabled, cache>>
  BY DEF Shown!FromCache, Shown!Asks
<1>3. entry.content = tab[t].refers[s] /\ entry.content \in Contents
  BY <1>1 DEF PageInv
<1>4. tab[t].whole => entry.content = tab[t].page
  BY <1>2, <1>3 DEF PageInv, OwnScripts
<1>5. /\ tab' \in [Tabs -> {Shown!Blank} \cup Opened]
      /\ \A u \in Tabs : tab'[u] # Shown!Blank => OwnScripts(tab'[u])
  BY <1>1, <1>2, <1>3, <1>4, Answer
<1> QED
  BY <1>2, <1>5 DEF PageInv

\* The process answers a path with a hash from its memory, or not at all.
LEMMA ProcessAnswers == ASSUME PageInv, NEW t \in Tabs, NEW s \in Scripts, Shown!FromProcess(t, s) PROVE PageInv'
<1> DEFINE hash == tab[t].refers[s]
           content == Shown!Served(s, hash)
<1>1. /\ tab[t] # Shown!Blank /\ UNCHANGED <<disk, memory, whole, enabled>> /\ Shown!Got(t, s, content)
      /\ cache' = IF enabled /\ content # Absent THEN cache \cup {[script |-> s, hash |-> hash, content |-> content]} ELSE cache
  BY DEF Shown!FromProcess, Shown!Asks
<1>2. content \in {hash, Absent} /\ content \in Contents
  BY DEF PageInv, Shown!Served, Shown!AllFiles, Contents
<1> HIDE DEF content
<1>3. tab[t].whole => hash = tab[t].page
  BY <1>1 DEF PageInv, OwnScripts
<1>4. /\ tab' \in [Tabs -> {Shown!Blank} \cup Opened]
      /\ \A u \in Tabs : tab'[u] # Shown!Blank => OwnScripts(tab'[u])
  BY <1>1, <1>2, <1>3, Answer
<1> HIDE DEF hash
<1>5. \A entry \in cache' : entry.content = entry.hash /\ entry.content \in Contents
  BY <1>1, <1>2 DEF PageInv
<1> QED
  BY <1>1, <1>4, <1>5 DEF PageInv

\* No page of a whole release refers to a script that is not named by its content.
LEMMA DiskAnswers == ASSUME PageInv, NEW t \in Tabs, NEW s \in Scripts, Shown!FromDisk(t, s) PROVE PageInv'
<1>1. /\ tab[t] # Shown!Blank /\ UNCHANGED <<memory, whole, enabled, cache, disk>>
      /\ Shown!Got(t, s, disk[s]) /\ tab[t].refers[s] = Absent
  BY DEF Shown!FromDisk, Shown!Asks
<1>2. disk[s] \in Contents
  BY DEF PageInv, Shown!AllFiles
<1>3. ~tab[t].whole
  <2>1. tab[t] \in Opened /\ OwnScripts(tab[t])
    BY <1>1 DEF PageInv
  <2> QED
    BY <1>1, <2>1, TimersAssumption DEF OwnScripts, Opened
<1>4. /\ tab' \in [Tabs -> {Shown!Blank} \cup Opened]
      /\ \A u \in Tabs : tab'[u] # Shown!Blank => OwnScripts(tab'[u])
  BY <1>1, <1>2, <1>3, Answer
<1> QED
  BY <1>1, <1>4 DEF PageInv

\* No other side touches them.
LEMMA PageStep == PageInv /\ [TimersNext]_<<scheduleVars, destinations, catalog, tools, assets, side>> => PageInv'
<1> SUFFICES ASSUME PageInv, [TimersNext]_<<scheduleVars, destinations, catalog, tools, assets, side>> PROVE PageInv'
  OBVIOUS
<1>1. ASSUME UNCHANGED assets PROVE PageInv'
  BY <1>1 DEF PageInv, assets
<1>2. ASSUME Shown!AssetsNext PROVE PageInv'
  <2>1. CASE Shown!Restart
    <3>1. /\ UNCHANGED <<disk, enabled, cache, tab>> /\ memory' = disk /\ disk["page"] # Absent
          /\ whole' = (\A f \in Shown!AllFiles : disk[f] = disk["page"])
      BY <2>1 DEF Shown!Restart
    <3>2. disk["page"] \in Releases
      BY <3>1 DEF PageInv, Shown!AllFiles, Contents
    <3> QED
      BY <3>1, <3>2 DEF PageInv
  <2>2. CASE Shown!Configure
    BY <2>2 DEF PageInv, Shown!Configure
  <2>3. ASSUME NEW f \in Shown!AllFiles, NEW r \in Releases \cup {Absent}, Shown!Replace(f, r) PROVE PageInv'
    BY <2>3 DEF PageInv, Shown!Replace, Contents
  <2> QED
    BY <1>2, <2>1, <2>2, <2>3, OpenKeeps, CacheAnswers, ProcessAnswers, DiskAnswers DEF Shown!AssetsNext
<1>3. UNCHANGED assets \/ Shown!AssetsNext
  BY DEF TimersNext
<1> QED
  BY <1>1, <1>2, <1>3

\* What a cache keeps under a hash has that hash, and a page that was opened from a whole
\* release loads its own scripts or none, while an update replaces the files one by one
\* and the process restarts (system/asset-cache.service.ts, main.ts).
THEOREM AssetsCorrect == TimersSpec => []AssetsAgree
<1>1. TimersInit => PageInv
  BY PageStart DEF TimersInit
<1>2. PageInv => AssetsAgree
  <2> SUFFICES ASSUME PageInv PROVE AssetsAgree
    OBVIOUS
  <2>1. Shown!CacheTrue
    BY DEF PageInv, Shown!CacheTrue
  <2>2. Shown!PageIsOneRelease
    BY DEF PageInv, OwnScripts, Shown!PageIsOneRelease
  <2> QED
    BY <2>1, <2>2 DEF AssetsAgree, Shown!AssetsAgree
<1> QED
  BY <1>1, <1>2, PageStep, PTL DEF TimersSpec

-----------------------------------------------------------------------------
(* Records *)

Server == [purpose : {"backup", "recovery"}, host : Hosts]
Planned == [job : {j1}, destination : Connections]
TestRow == [plan : Plans, run : Runs, status : {"running", "left", "failed", "passed"}]

\* The servers there are, and what plans and rehearsals need of them.
ServersOK ==
  /\ conn \in [Connections -> {Gone} \cup Server]
  /\ plan \in [Plans -> {Gone} \cup Planned]
  /\ rehearsal = [c \in Connections |-> rehearsal[c]]
  /\ Listed!PlanKeepsDestination /\ Listed!DestinationHeld

\* The sources of a schedule, and what is left of them when its deletion is cut.
SourcesOK ==
  /\ schedules \in [{j1} -> [row : BOOLEAN, links : SUBSET Connections, first : Connections \cup {Gone}, saved : SUBSET Connections]]
  /\ schedules[j1].row => schedules[j1].links \subseteq schedules[j1].saved /\ schedules[j1].first \in schedules[j1].saved

\* A test that passed has restored its run.
TestsOK ==
  /\ tests \in Seq(TestRow)
  /\ waiting \subseteq [plan : Plans, run : Runs, destination : Connections]
  /\ \A i \in DOMAIN tests : tests[i].status = "passed" => tests[i].run \in restored

CatalogInv == ServersOK /\ SourcesOK /\ TestsOK

\* At a start nothing is saved.
LEMMA CatalogStart == Listed!CatalogInit => CatalogInv
<1> SUFFICES ASSUME Listed!CatalogInit PROVE CatalogInv
  OBVIOUS
<1>1. ServersOK
  BY DEF Listed!CatalogInit, ServersOK, Listed!PlanKeepsDestination, Listed!DestinationHeld, Listed!Rehearsing
<1>2. SourcesOK
  BY DEF Listed!CatalogInit, SourcesOK
<1>3. TestsOK
  BY DEF Listed!CatalogInit, TestsOK
<1> QED
  BY <1>1, <1>2, <1>3 DEF CatalogInv

\* A server is saved, or none is left of it, and all others are as they were.
LEMMA ServerChanges ==
  ASSUME ServersOK, NEW c \in Connections, NEW new \in {Gone} \cup Server, conn' = [conn EXCEPT ![c] = new],
         UNCHANGED <<plan, rehearsal>>, ~Listed!Rehearsing(c),
         new = Gone \/ new.purpose # "recovery" => \A p \in Plans : plan[p] # Gone => plan[p].destination # c
  PROVE  ServersOK'
<1>1. /\ conn' \in [Connections -> {Gone} \cup Server] /\ conn'[c] = new
      /\ \A d \in Connections \ {c} : conn'[d] = conn[d]
  BY DEF ServersOK
<1>2. Listed!PlanKeepsDestination'
  <2> SUFFICES ASSUME NEW p \in Plans, plan[p] # Gone PROVE Listed!Has(plan[p].destination, "recovery")'
    BY DEF Listed!PlanKeepsDestination
  <2>1. plan[p].destination \in Connections /\ Listed!Has(plan[p].destination, "recovery")
    BY DEF ServersOK, Planned, Listed!PlanKeepsDestination
  <2> QED
    BY <1>1, <2>1 DEF Listed!Has
<1>3. Listed!DestinationHeld'
  BY <1>1 DEF ServersOK, Listed!DestinationHeld, Listed!Rehearsing, Listed!Has
<1> QED
  BY <1>1, <1>2, <1>3 DEF ServersOK

\* Servers are saved and deleted for as long as no plan and no rehearsal needs them.
LEMMA ServersKept == ASSUME CatalogInv, Listed!CatalogNext PROVE ServersOK'
<1>0. ServersOK
  BY DEF CatalogInv
<1>1. CASE UNCHANGED <<conn, plan, rehearsal>>
  BY <1>0, <1>1 DEF ServersOK, Listed!PlanKeepsDestination, Listed!DestinationHeld, Listed!Rehearsing, Listed!Has
<1>2. ASSUME NEW c \in Connections, NEW h \in Hosts, Listed!SaveConnection(c, h) PROVE ServersOK'
  <2>1. ~Listed!Has(c, "recovery") /\ UNCHANGED <<plan, rehearsal>>
        /\ conn' = [conn EXCEPT ![c] = [purpose |-> "backup", host |-> h]]
    BY <1>2 DEF Listed!SaveConnection, Listed!trials
  <2>2. ~Listed!Rehearsing(c) /\ \A p \in Plans : plan[p] # Gone => plan[p].destination # c
    BY <1>0, <2>1 DEF ServersOK, Listed!PlanKeepsDestination, Listed!DestinationHeld
  <2>3. [purpose |-> "backup", host |-> h] \in Server
    BY DEF Server
  <2> QED
    BY <1>0, <2>1, <2>2, <2>3, ServerChanges
<1>3. ASSUME NEW c \in Connections, NEW h \in Hosts, Listed!SaveRecoveryConnection(c, h) PROVE ServersOK'
  <2> DEFINE new == [purpose |-> "recovery", host |-> h]
  <2>1. ~Listed!Rehearsing(c) /\ UNCHANGED <<plan, rehearsal>> /\ conn' = [conn EXCEPT ![c] = new]
    BY <1>3 DEF Listed!SaveRecoveryConnection, Listed!trials
  <2>2. new \in Server /\ new # Gone /\ new.purpose = "recovery"
    BY TimersAssumption DEF Server
  <2> HIDE DEF new
  <2> QED
    BY <1>0, <2>1, <2>2, ServerChanges
<1>4. ASSUME NEW c \in Connections, Listed!DeleteConnection(c) PROVE ServersOK'
  <2>1. Listed!Has(c, "backup") /\ UNCHANGED <<plan, rehearsal>> /\ conn' = [conn EXCEPT ![c] = Gone]
    BY <1>4 DEF Listed!DeleteConnection, Listed!trials
  <2>2. ~Listed!Has(c, "recovery")
    BY <2>1 DEF Listed!Has
  <2>3. ~Listed!Rehearsing(c) /\ \A p \in Plans : plan[p] # Gone => plan[p].destination # c
    BY <1>0, <2>2 DEF ServersOK, Listed!PlanKeepsDestination, Listed!DestinationHeld
  <2> QED
    BY <1>0, <2>1, <2>3, ServerChanges
<1>5. ASSUME NEW c \in Connections, Listed!DeleteRecoveryConnection(c) PROVE ServersOK'
  <2>1. /\ ~Listed!Rehearsing(c) /\ UNCHANGED <<plan, rehearsal>> /\ conn' = [conn EXCEPT ![c] = Gone]
        /\ \A p \in Plans : plan[p] # Gone => plan[p].destination # c
    BY <1>5 DEF Listed!DeleteRecoveryConnection, Listed!trials
  <2> QED
    BY <1>0, <2>1, ServerChanges
<1>6. ASSUME NEW d \in Connections, Listed!EndRehearsal(d) PROVE ServersOK'
  <2>1. UNCHANGED <<conn, plan>> /\ rehearsal' = [rehearsal EXCEPT ![d] = Gone]
    BY <1>6 DEF Listed!EndRehearsal, Listed!records
  <2>2. rehearsal' = [c \in Connections |-> rehearsal'[c]] /\ rehearsal'[d] = Gone /\ \A c \in Connections \ {d} : rehearsal'[c] = rehearsal[c]
    BY <1>0, <2>1 DEF ServersOK
  <2> QED
    BY <1>0, <2>1, <2>2 DEF ServersOK, Listed!PlanKeepsDestination, Listed!DestinationHeld, Listed!Rehearsing, Listed!Has
<1>7. ASSUME NEW p \in Plans, Listed!DeletePlan(p) PROVE ServersOK'
  <2>1. UNCHANGED <<conn, rehearsal>> /\ plan' = [plan EXCEPT ![p] = Gone]
    BY <1>7 DEF Listed!DeletePlan, Listed!trials
  <2> QED
    BY <1>0, <2>1 DEF ServersOK, Listed!PlanKeepsDestination, Listed!DestinationHeld, Listed!Rehearsing, Listed!Has
<1>8. ASSUME NEW p \in Plans, NEW j \in {j1}, NEW c \in Connections, Listed!SavePlan(p, j, c) PROVE ServersOK'
  <2>1. /\ UNCHANGED <<conn, rehearsal>> /\ Listed!Has(c, "recovery")
        /\ plan' = [plan EXCEPT ![p] = [job |-> j, destination |-> c]]
    BY <1>8 DEF Listed!SavePlan, Listed!trials
  <2>2. plan' \in [Plans -> {Gone} \cup Planned] /\ plan'[p].destination = c /\ \A q \in Plans \ {p} : plan'[q] = plan[q]
    BY <1>0, <2>1 DEF ServersOK, Planned
  <2> QED
    BY <1>0, <2>1, <2>2 DEF ServersOK, Listed!PlanKeepsDestination, Listed!DestinationHeld, Listed!Rehearsing, Listed!Has
<1>9. ASSUME NEW r \in Runs, NEW d \in Connections, Listed!StartRehearsal(r, d) PROVE ServersOK'
  <2> DEFINE s == run[r].source
             new == [source |-> conn[s].host, host |-> conn[d].host]
  <2>1. UNCHANGED <<conn, plan>> /\ Listed!Apart(s, d) /\ rehearsal' = [rehearsal EXCEPT ![d] = new]
    BY <1>9 DEF Listed!StartRehearsal, Listed!records
  <2>2. rehearsal' = [c \in Connections |-> rehearsal'[c]] /\ rehearsal'[d] = new /\ \A c \in Connections \ {d} : rehearsal'[c] = rehearsal[c]
    BY <1>0, <2>1 DEF ServersOK
  <2>3. /\ Listed!Has(d, "recovery") /\ new.host = conn[d].host /\ new.source # new.host
        /\ ~{new.host, new.source} \subseteq Loopback
    BY <2>1 DEF Listed!Apart, Listed!Server
  <2> HIDE DEF s, new
  <2> QED
    BY <1>0, <2>1, <2>2, <2>3 DEF ServersOK, Listed!PlanKeepsDestination, Listed!DestinationHeld, Listed!Rehearsing, Listed!Has
<1>10. CASE Listed!Stopped /\ UNCHANGED <<conn, plan>>
  BY <1>0, <1>10 DEF Listed!Stopped, ServersOK, Listed!PlanKeepsDestination, Listed!DestinationHeld, Listed!Rehearsing, Listed!Has
<1>11. ASSUME NEW j \in {j1}, Listed!DeleteJob(j) PROVE ServersOK'
  BY <1>1, <1>10, <1>11 DEF Listed!DeleteJob, Listed!trials
<1>12. ASSUME \/ \E j \in {j1} : Listed!Enqueue(j) \/ \E cs \in SUBSET Connections : Listed!SaveJob(j, cs)
              \/ \E a \in active : Listed!Work(a) \/ Listed!Cancel(a)
              \/ \E p \in Plans : Listed!AskTest(p)
              \/ \E w \in waiting : Listed!Answered(w)
              \/ \E i \in DOMAIN tests : Listed!EndTest(i)
              \/ \E r \in Runs : Listed!Expire(r) \/ Listed!RetryRun(r) \/ Listed!RetryHistoricalRun(r)
       PROVE UNCHANGED <<conn, plan, rehearsal>>
  BY <1>12 DEF Listed!Enqueue, Listed!SaveJob, Listed!Work, Listed!Cancel, Listed!AskTest, Listed!Answered, Listed!EndTest,
       Listed!Expire, Listed!RetryRun, Listed!RetryHistoricalRun, Listed!records, Listed!trials
<1>13. CASE Listed!Stop
  BY <1>10, <1>13 DEF Listed!Stop, Listed!records
<1> QED
  BY <1>1, <1>2, <1>3, <1>4, <1>5, <1>6, <1>7, <1>8, <1>9, <1>11, <1>12, <1>13 DEF Listed!CatalogNext

\* A schedule is saved with its sources, and a deletion takes the links first.
LEMMA SourcesKept == ASSUME CatalogInv, Listed!CatalogNext PROVE SourcesOK'
<1>0. SourcesOK
  BY DEF CatalogInv
<1>1. CASE UNCHANGED schedules
  BY <1>0, <1>1 DEF SourcesOK
<1>2. ASSUME NEW j \in {j1}, NEW cs \in SUBSET Connections, Listed!SaveJob(j, cs) PROVE SourcesOK'
  <2>1. PICK f \in cs : schedules' = [schedules EXCEPT ![j] = [row |-> TRUE, links |-> cs, first |-> f, saved |-> cs]]
    BY <1>2 DEF Listed!SaveJob
  <2> QED
    BY <1>0, <2>1 DEF SourcesOK
<1>3. ASSUME NEW j \in {j1}, Listed!DeleteJob(j) PROVE SourcesOK'
  <2>1. CASE schedules' = [schedules EXCEPT ![j] = [row |-> FALSE, links |-> {}, first |-> Gone, saved |-> {}]]
    BY <1>0, <2>1 DEF SourcesOK
  <2>2. CASE schedules' = [schedules EXCEPT ![j].links = {}]
    BY <1>0, <2>2 DEF SourcesOK
  <2> QED
    BY <1>3, <2>1, <2>2 DEF Listed!DeleteJob
<1>4. ASSUME \/ \E c \in Connections, h \in Hosts : Listed!SaveConnection(c, h) \/ Listed!SaveRecoveryConnection(c, h)
             \/ \E c \in Connections : Listed!DeleteConnection(c) \/ Listed!DeleteRecoveryConnection(c) \/ Listed!EndRehearsal(c)
             \/ \E j \in {j1} : Listed!Enqueue(j)
             \/ \E a \in active : Listed!Work(a) \/ Listed!Cancel(a)
             \/ \E p \in Plans : Listed!DeletePlan(p) \/ Listed!AskTest(p) \/ \E j \in {j1}, c \in Connections : Listed!SavePlan(p, j, c)
             \/ \E w \in waiting : Listed!Answered(w)
             \/ \E i \in DOMAIN tests : Listed!EndTest(i)
             \/ \E r \in Runs : \/ Listed!Expire(r) \/ Listed!RetryRun(r) \/ Listed!RetryHistoricalRun(r)
                                \/ \E d \in Connections : Listed!StartRehearsal(r, d)
             \/ Listed!Stop
      PROVE  UNCHANGED schedules
  BY <1>4 DEF Listed!SaveConnection, Listed!SaveRecoveryConnection, Listed!DeleteConnection, Listed!DeleteRecoveryConnection,
       Listed!EndRehearsal, Listed!Enqueue, Listed!Work, Listed!Cancel, Listed!DeletePlan, Listed!AskTest, Listed!SavePlan, Listed!Answered,
       Listed!EndTest, Listed!Expire, Listed!RetryRun, Listed!RetryHistoricalRun, Listed!StartRehearsal, Listed!Stop,
       Listed!records
<1> QED
  BY <1>1, <1>2, <1>3, <1>4 DEF Listed!CatalogNext

\* The greatest of some numbers up to one of them is one of them.
LEMMA GreatestIs ==
  ASSUME NEW n \in Nat, NEW S, S \subseteq 1 .. n, S # {}
  PROVE  Listed!Max(S) \in S /\ Placed!Max(S) \in S
<1>1. S \subseteq 0 .. n
  OBVIOUS
<1>2. PICK m \in S : \A k \in S : k <= m
  BY <1>1, GreatestNumber
<1>3. \A k \in S : m >= k
  BY <1>2
<1> QED
  BY <1>3 DEF Listed!Max, Placed!Max

\* A row of a test is added or changed, and none comes to have passed.
LEMMA RowsChange ==
  ASSUME TestsOK, UNCHANGED restored, waiting' \subseteq [plan : Plans, run : Runs, destination : Connections],
         tests' \in Seq(TestRow), \A i \in DOMAIN tests' : tests'[i].status = "passed" => i \in DOMAIN tests /\ tests[i] = tests'[i]
  PROVE  TestsOK'
  BY DEF TestsOK

\* A test ends as passed with the restore of its run.
LEMMA TestsKept == ASSUME CatalogInv, Listed!CatalogNext PROVE TestsOK'
<1>0. TestsOK /\ ServersOK
  BY DEF CatalogInv
<1>1. CASE UNCHANGED <<tests, waiting, restored>>
  BY <1>0, <1>1 DEF TestsOK
<1>2. ASSUME NEW p \in Plans, Listed!AskTest(p) PROVE TestsOK'
  <2> DEFINE S == Listed!Successes(plan[p].job)
             r == Listed!Max(S)
  <2>1. /\ plan[p] # Gone /\ S # {} /\ UNCHANGED <<tests, restored>>
        /\ waiting' = waiting \cup {[plan |-> p, run |-> r, destination |-> plan[p].destination]}
    BY <1>2 DEF Listed!AskTest
  <2>2. S \subseteq Runs
    BY DEF Listed!Successes
  <2> HIDE DEF S
  <2>3. Runs = 1 .. Cardinality(Runs) /\ Cardinality(Runs) \in Nat
    BY TimersAssumption, FS_CardinalityType
  <2>4. r \in Runs
    BY <2>1, <2>2, <2>3, GreatestIs
  <2>5. plan[p].destination \in Connections
    BY <1>0, <2>1 DEF ServersOK, Planned
  <2> HIDE DEF r
  <2> QED
    BY <1>0, <2>1, <2>4, <2>5 DEF TestsOK
<1>3. ASSUME NEW w \in waiting, Listed!Answered(w) PROVE TestsOK'
  <2> DEFINE new == [plan |-> w.plan, run |-> w.run, status |-> IF conn[w.destination] = Gone THEN "failed" ELSE "running"]
  <2>1. waiting' = waiting \ {w} /\ UNCHANGED restored /\ (UNCHANGED tests \/ tests' = Append(tests, new))
    BY <1>3 DEF Listed!Answered
  <2>2. new \in TestRow /\ new.status # "passed"
    BY <1>0 DEF TestsOK, TestRow
  <2> HIDE DEF new
  <2>3. CASE UNCHANGED tests
    BY <1>0, <2>1, <2>3 DEF TestsOK
  <2>4. CASE tests' = Append(tests, new)
    <3>1. tests \in Seq(TestRow)
      BY <1>0 DEF TestsOK
    <3>2. /\ tests' \in Seq(TestRow) /\ DOMAIN tests' = 1 .. Len(tests) + 1 /\ DOMAIN tests = 1 .. Len(tests)
          /\ tests'[Len(tests) + 1] = new /\ \A i \in 1 .. Len(tests) : tests'[i] = tests[i]
      BY <2>2, <2>4, <3>1
    <3>3. \A i \in 1 .. Len(tests) + 1 : i \in 1 .. Len(tests) \/ i = Len(tests) + 1
      BY <3>1
    <3>4. \A i \in DOMAIN tests' : tests'[i].status = "passed" => i \in DOMAIN tests /\ tests[i] = tests'[i]
      BY <2>2, <3>2, <3>3
    <3> QED
      BY <1>0, <2>1, <3>2, <3>4, RowsChange DEF TestsOK
  <2> QED
    BY <2>1, <2>3, <2>4
<1>4. ASSUME NEW i \in DOMAIN tests, Listed!EndTest(i) PROVE TestsOK'
  <2>1. UNCHANGED waiting /\ tests[i].status \in Listed!Unfinished
    BY <1>4 DEF Listed!EndTest
  <2>2. \A s \in {"failed", "passed"} : LET new == [tests EXCEPT ![i].status = s] IN
          /\ new \in Seq(TestRow) /\ DOMAIN new = DOMAIN tests
          /\ new[i].status = s /\ new[i].run = tests[i].run /\ \A k \in DOMAIN tests \ {i} : new[k] = tests[k]
    <3> SUFFICES ASSUME NEW s \in {"failed", "passed"}
                 PROVE  LET new == [tests EXCEPT ![i].status = s] IN
                        /\ new \in Seq(TestRow) /\ DOMAIN new = DOMAIN tests
                        /\ new[i].status = s /\ new[i].run = tests[i].run /\ \A k \in DOMAIN tests \ {i} : new[k] = tests[k]
      OBVIOUS
    <3> DEFINE ended == [tests[i] EXCEPT !.status = s]
               new == [tests EXCEPT ![i] = ended]
    <3>1. tests \in Seq(TestRow)
      BY <1>0 DEF TestsOK
    <3>2. tests[i] \in TestRow
      BY <3>1
    <3>3. ended \in TestRow /\ ended.status = s /\ ended.run = tests[i].run
      BY <3>2 DEF TestRow
    <3>4. [tests EXCEPT ![i].status = s] = new
      OBVIOUS
    <3> HIDE DEF ended
    <3>5. new \in Seq(TestRow) /\ DOMAIN new = DOMAIN tests /\ new[i] = ended /\ \A k \in DOMAIN tests \ {i} : new[k] = tests[k]
      BY <3>1, <3>3
    <3> QED
      BY <3>3, <3>4, <3>5
  <2>3. CASE tests' = [tests EXCEPT ![i].status = "failed"] /\ UNCHANGED restored
    <3>1. tests' \in Seq(TestRow) /\ DOMAIN tests' = DOMAIN tests /\ tests'[i].status = "failed" /\ \A k \in DOMAIN tests \ {i} : tests'[k] = tests[k]
      BY <2>2, <2>3
    <3> QED
      BY <1>0, <2>1, <2>3, <3>1, RowsChange DEF TestsOK
  <2>4. CASE tests' = [tests EXCEPT ![i].status = "passed"] /\ restored' = restored \cup {tests[i].run}
    <3>1. /\ tests' \in Seq(TestRow) /\ DOMAIN tests' = DOMAIN tests /\ tests'[i].run = tests[i].run
          /\ \A k \in DOMAIN tests \ {i} : tests'[k] = tests[k]
      BY <2>2, <2>4
    <3> QED
      BY <1>0, <2>1, <2>4, <3>1 DEF TestsOK
  <2> QED
    BY <1>4, <2>3, <2>4 DEF Listed!EndTest
<1>5. CASE Listed!Stopped
  <2> DEFINE closed(i) == [tests[i] EXCEPT !.status = IF tests[i].status = "running" THEN "left" ELSE tests[i].status]
  <2>1. tests' = [i \in DOMAIN tests |-> closed(i)] /\ waiting' = {} /\ UNCHANGED restored
    BY <1>5 DEF Listed!Stopped
  <2>2. tests \in Seq(TestRow) /\ Len(tests) \in Nat /\ DOMAIN tests = 1 .. Len(tests)
    BY <1>0 DEF TestsOK
  <2>3. \A i \in DOMAIN tests : tests[i] \in TestRow
    BY <2>2
  <2>4. \A i \in DOMAIN tests : closed(i) \in TestRow /\ (closed(i).status = "passed" => closed(i) = tests[i])
    BY <2>3 DEF TestRow
  <2> HIDE DEF closed
  <2>5. tests' \in Seq(TestRow)
    BY <2>1, <2>2, <2>4
  <2>6. \A i \in DOMAIN tests' : tests'[i].status = "passed" => i \in DOMAIN tests /\ tests[i] = tests'[i]
    BY <2>1, <2>4
  <2> QED
    BY <1>0, <2>1, <2>5, <2>6, RowsChange
<1>6. ASSUME NEW j \in {j1}, Listed!DeleteJob(j) PROVE TestsOK'
  BY <1>1, <1>5, <1>6 DEF Listed!DeleteJob, Listed!trials
<1>7. CASE Listed!Stop
  BY <1>5, <1>7 DEF Listed!Stop
<1>8. ASSUME \/ \E c \in Connections, h \in Hosts : Listed!SaveConnection(c, h) \/ Listed!SaveRecoveryConnection(c, h)
             \/ \E c \in Connections : Listed!DeleteConnection(c) \/ Listed!DeleteRecoveryConnection(c) \/ Listed!EndRehearsal(c)
             \/ \E j \in {j1} : Listed!Enqueue(j) \/ \E cs \in SUBSET Connections : Listed!SaveJob(j, cs)
             \/ \E a \in active : Listed!Work(a) \/ Listed!Cancel(a)
             \/ \E p \in Plans : Listed!DeletePlan(p) \/ \E j \in {j1}, c \in Connections : Listed!SavePlan(p, j, c)
             \/ \E r \in Runs : \/ Listed!Expire(r) \/ Listed!RetryRun(r) \/ Listed!RetryHistoricalRun(r)
                                \/ \E d \in Connections : Listed!StartRehearsal(r, d)
      PROVE  UNCHANGED <<tests, waiting, restored>>
  BY <1>8 DEF Listed!SaveConnection, Listed!SaveRecoveryConnection, Listed!DeleteConnection, Listed!DeleteRecoveryConnection,
       Listed!EndRehearsal, Listed!Enqueue, Listed!SaveJob, Listed!Work, Listed!Cancel, Listed!DeletePlan, Listed!SavePlan,
       Listed!Expire, Listed!RetryRun, Listed!RetryHistoricalRun, Listed!StartRehearsal, Listed!trials
<1> QED
  BY <1>1, <1>2, <1>3, <1>4, <1>6, <1>7, <1>8 DEF Listed!CatalogNext

\* No other side touches them.
LEMMA CatalogStep == CatalogInv /\ [TimersNext]_<<scheduleVars, destinations, catalog, tools, assets, side>> => CatalogInv'
<1> SUFFICES ASSUME CatalogInv, [TimersNext]_<<scheduleVars, destinations, catalog, tools, assets, side>> PROVE CatalogInv'
  OBVIOUS
<1>1. ASSUME UNCHANGED catalog PROVE CatalogInv'
  BY <1>1 DEF CatalogInv, ServersOK, SourcesOK, TestsOK, Listed!PlanKeepsDestination, Listed!DestinationHeld, Listed!Rehearsing,
     Listed!Has, catalog
<1>2. ASSUME Listed!CatalogNext PROVE CatalogInv'
  BY <1>2, ServersKept, SourcesKept, TestsKept DEF CatalogInv
<1>3. UNCHANGED catalog \/ Listed!CatalogNext
  BY DEF TimersNext
<1> QED
  BY <1>1, <1>2, <1>3

\* A plan keeps a destination that is there for recovery, one that is rehearsed on stays
\* as it was and apart from the source, a schedule has none but its own sources, and a
\* recovery point that is called proven was itself restored, whatever is saved, deleted
\* and retried (backup/backup.service.ts, recovery/recovery.service.ts).
THEOREM CatalogCorrect == TimersSpec => []CatalogAgrees
<1>1. TimersInit => CatalogInv
  BY CatalogStart DEF TimersInit
<1>2. CatalogInv => CatalogAgrees
  <2> SUFFICES ASSUME CatalogInv PROVE CatalogAgrees
    OBVIOUS
  <2>0. ServersOK /\ SourcesOK /\ TestsOK
    BY DEF CatalogInv
  <2>1. Listed!JobKeepsSources
    BY <2>0 DEF SourcesOK, Listed!JobKeepsSources, Listed!Sources
  <2>2. Listed!ProvenIsRestored
    <3> SUFFICES ASSUME NEW j \in {j1}, NEW r \in Listed!Points(j), Listed!Proven(j, r) PROVE r \in restored
      BY DEF Listed!ProvenIsRestored
    <3> DEFINE S == Listed!TestsOf(j, r)
    <3>1. S # {} /\ tests[Listed!Max(S)].status = "passed"
      BY DEF Listed!Proven
    <3>2. S \subseteq 1 .. Len(tests) /\ Len(tests) \in Nat /\ DOMAIN tests = 1 .. Len(tests)
      BY <2>0 DEF TestsOK, Listed!TestsOf
    <3>3. \A i \in S : tests[i].run = r
      BY DEF Listed!TestsOf
    <3> HIDE DEF S
    <3>4. Listed!Max(S) \in S
      BY <3>1, <3>2, GreatestIs
    <3> QED
      BY <2>0, <3>1, <3>2, <3>3, <3>4 DEF TestsOK
  <2> QED
    BY <2>0, <2>1, <2>2 DEF ServersOK, CatalogAgrees, Listed!CatalogAgrees
<1> QED
  BY <1>1, <1>2, CatalogStep, PTL DEF TimersSpec

-----------------------------------------------------------------------------
(* Destinations *)

\* The settings and what is counted.
CountsOK ==
  /\ keep \in Nat /\ place \in Places
  /\ edits \in Nat /\ outages \in Nat /\ others \in Nat
  /\ resolving \in BOOLEAN /\ (outages = 0 => resolving)

\* A file is where it was uploaded to or nowhere, and without a change of settings that
\* is where they point to.
StoredOK(s, h, r, p, e) ==
  /\ s \in [Files -> Places \cup {Nowhere}] /\ h \in [Files -> Places \cup {Nowhere}]
  /\ r \in [Files -> {"none", "success", "failed", "expired"}]
  /\ \A f \in Files :
       /\ r[f] = "none" => h[f] = Nowhere
       /\ s[f] \in {h[f], Nowhere}
       /\ e = 0 => h[f] \in {p, Nowhere}

\* Behind a file there are newer ones, as many as are kept.
HasEnough(f, seen, k) == Cardinality({g \in seen : g > f}) >= k

Rotating ==
  [stage : {"listing", "deleting"}, place : Places, due : SUBSET Files, seen : SUBSET Files, left : SUBSET Files]

\* A retention has seen files of the schedule at its place, and goes on to those with
\* enough newer ones among them.
RotationOK(r, h, p, e, k) ==
  \/ r = Placed!Idle
  \/ /\ r \in Rotating /\ k > 0 /\ (e = 0 => r.place = p)
     /\ \A f \in r.seen : f \notin Foreign /\ h[f] = r.place
     /\ \A f \in r.left : f \in r.seen /\ HasEnough(f, r.seen, k)

\* What goes on beside it has read the settings.
TaskOK(t, p, e) ==
  /\ t.stage \in {"idle", "renewing", "asked", "testing"}
  /\ t.stage # "idle" => t.place \in Places /\ (e = 0 => t.place = p)
  /\ t.stage = "asked" => t.file \in Files

NewerThan(f, h) == {g \in Files \ Foreign : h[g] = h[f] /\ g > f}

\* RetentionIsRight and WrittenOffIsGone, of any state.
RemovedRightly(s, h, k) ==
  \A f \in Files : s[f] # h[f] => f \notin Foreign /\ k > 0 /\ Cardinality(NewerThan(f, h)) >= k
WrittenOff(s, r) == \A f \in Files : r[f] = "expired" => s[f] = Nowhere

Certain == (edits = 0 \/ kind \in Placed!Drives) /\ (outages = 0 \/ kind \notin {"ftp", "s3"})

DestinationsInv ==
  /\ CountsOK /\ StoredOK(stored, home, row, place, edits)
  /\ RotationOK(rotation, home, place, edits, keep) /\ TaskOK(task, place, edits)
  /\ edits = 0 /\ health = "object lock" => place \in locked
  /\ others = 0 => RemovedRightly(stored, home, keep)
  /\ Certain => WrittenOff(stored, row)

\* Sets of files are finite, and a smaller one has no more.
LEMMA FilesCounted ==
  ASSUME NEW S \in SUBSET Files, NEW T \in SUBSET S
  PROVE  Cardinality(S) \in Nat /\ Cardinality(T) \in Nat /\ Cardinality(T) <= Cardinality(S)
<1>1. IsFiniteSet(Files)
  BY TimersAssumption
<1>2. IsFiniteSet(S) /\ IsFiniteSet(T)
  BY <1>1, FS_Subset
<1> QED
  BY <1>2, FS_Subset, FS_CardinalityType

\* What is removed next is one of those that are left.
LEMMA NextIsLeft ==
  ASSUME NEW S \in SUBSET Files, S # {}
  PROVE  Placed!Max(S) \in S
<1>1. Files = 1 .. Cardinality(Files) /\ Cardinality(Files) \in Nat
  BY TimersAssumption, FS_CardinalityType
<1> QED
  BY <1>1, GreatestIs

\* At a start nothing is stored.
LEMMA DestinationsStart == Placed!DestinationsInit => DestinationsInv
<1> SUFFICES ASSUME Placed!DestinationsInit PROVE DestinationsInv
  OBVIOUS
<1>1. CountsOK
  BY TimersAssumption DEF Placed!DestinationsInit, CountsOK
<1>2. StoredOK(stored, home, row, place, edits)
  BY DEF Placed!DestinationsInit, StoredOK
<1>3. RotationOK(rotation, home, place, edits, keep) /\ TaskOK(task, place, edits)
  BY DEF Placed!DestinationsInit, RotationOK, TaskOK, Placed!Idle
<1>4. RemovedRightly(stored, home, keep) /\ WrittenOff(stored, row) /\ health = "no lock"
  BY DEF Placed!DestinationsInit, RemovedRightly, WrittenOff
<1> QED
  BY <1>1, <1>2, <1>3, <1>4 DEF DestinationsInv

\* Others remove a file, and are counted.
LEMMA LoseKeeps == ASSUME DestinationsInv, NEW f \in Files, Placed!Lose(f) PROVE DestinationsInv'
<1>1. /\ others' = others + 1 /\ stored' = [stored EXCEPT ![f] = Nowhere]
      /\ UNCHANGED <<kind, keep, locked, place, required, home, row, rotation, task, health, resolving, edits, outages>>
  BY DEF Placed!Lose, Placed!fixed, Placed!settings
<1>2. CountsOK /\ StoredOK(stored, home, row, place, edits) /\ (Certain => WrittenOff(stored, row))
  BY DEF DestinationsInv
<1>3. StoredOK(stored', home', row', place', edits') /\ (Certain => WrittenOff(stored', row'))
  BY <1>1, <1>2 DEF StoredOK, WrittenOff
<1>4. CountsOK' /\ others' # 0
  BY <1>1, <1>2 DEF CountsOK
<1> QED
  BY <1>1, <1>3, <1>4 DEF DestinationsInv, Certain

\* Names stop to resolve, and that is counted; or they do again.
LEMMA ResolveKeeps == ASSUME DestinationsInv, Placed!Resolve PROVE DestinationsInv'
<1>1. /\ resolving' = ~resolving /\ outages' = IF resolving THEN outages + 1 ELSE outages
      /\ UNCHANGED <<kind, keep, locked, place, required, stored, home, row, rotation, task, health, edits, others>>
  BY DEF Placed!Resolve, Placed!fixed, Placed!settings
<1>2. CountsOK
  BY DEF DestinationsInv
<1>3. CountsOK' /\ (outages' = 0 => outages = 0)
  BY <1>1, <1>2 DEF CountsOK
<1>4. Certain' => Certain
  BY <1>1, <1>3 DEF Certain
<1> QED
  BY <1>1, <1>3, <1>4 DEF DestinationsInv

\* The settings change, and that is counted.
LEMMA SaveKeeps == ASSUME DestinationsInv, NEW p \in Places, NEW lock \in BOOLEAN, Placed!SaveTarget(p, lock) PROVE DestinationsInv'
<1>1. /\ edits' = edits + 1 /\ place' = p /\ required' = lock
      /\ UNCHANGED <<kind, keep, locked, stored, home, row, rotation, task, health, resolving, outages, others>>
  BY DEF Placed!SaveTarget, Placed!fixed
<1>2. CountsOK /\ StoredOK(stored, home, row, place, edits) /\ RotationOK(rotation, home, place, edits, keep) /\ TaskOK(task, place, edits)
  BY DEF DestinationsInv
<1>3. CountsOK' /\ edits' # 0
  BY <1>1, <1>2 DEF CountsOK
<1>4. StoredOK(stored', home', row', place', edits')
  BY <1>1, <1>2, <1>3 DEF StoredOK
<1>5. RotationOK(rotation', home', place', edits', keep') /\ TaskOK(task', place', edits')
  BY <1>1, <1>2, <1>3 DEF RotationOK, TaskOK
<1> QED
  BY <1>1, <1>3, <1>4, <1>5 DEF DestinationsInv, Certain

\* What goes on beside a retention begins or ends; a renewed token brings back the
\* settings it was given.
LEMMA TaskKeeps ==
  ASSUME DestinationsInv, Placed!BeginRefresh \/ Placed!EndRefresh \/ Placed!BeginHealth \/ Placed!EndHealth \/ \E f \in Files : Placed!AskFor(f)
  PROVE  DestinationsInv'
<1>0. CountsOK /\ TaskOK(task, place, edits) /\ StoredOK(stored, home, row, place, edits) /\ RotationOK(rotation, home, place, edits, keep)
  BY DEF DestinationsInv
<1>1. CASE Placed!BeginRefresh
  <2>1. /\ task' = [stage |-> "renewing", place |-> place]
        /\ UNCHANGED <<kind, keep, locked, place, required, stored, home, row, rotation, health, resolving, edits, outages, others>>
    BY <1>1 DEF Placed!BeginRefresh, Placed!fixed, Placed!settings, Placed!counts
  <2>2. TaskOK(task', place', edits')
    BY <1>0, <2>1 DEF TaskOK, CountsOK
  <2> QED
    BY <2>1, <2>2 DEF DestinationsInv, Certain, CountsOK
<1>2. CASE Placed!BeginHealth
  <2>1. /\ task' = [stage |-> "testing", place |-> place, required |-> required]
        /\ UNCHANGED <<kind, keep, locked, place, required, stored, home, row, rotation, health, resolving, edits, outages, others>>
    BY <1>2 DEF Placed!BeginHealth, Placed!fixed, Placed!settings, Placed!counts
  <2>2. TaskOK(task', place', edits')
    BY <1>0, <2>1 DEF TaskOK, CountsOK
  <2> QED
    BY <2>1, <2>2 DEF DestinationsInv, Certain, CountsOK
<1>3. ASSUME NEW f \in Files, Placed!AskFor(f) PROVE DestinationsInv'
  <2>1. /\ task' = [stage |-> "asked", file |-> f, place |-> place]
        /\ UNCHANGED <<kind, keep, locked, place, required, stored, home, row, rotation, health, resolving, edits, outages, others>>
    BY <1>3 DEF Placed!AskFor, Placed!fixed, Placed!settings, Placed!counts
  <2>2. TaskOK(task', place', edits')
    BY <1>0, <2>1 DEF TaskOK, CountsOK
  <2> QED
    BY <2>1, <2>2 DEF DestinationsInv, Certain, CountsOK
<1>4. CASE Placed!EndRefresh
  <2>1. /\ task.stage = "renewing" /\ task' = Placed!Idle /\ place' \in {place, task.place}
        /\ UNCHANGED <<kind, keep, locked, required, stored, home, row, rotation, health, resolving, edits, outages, others>>
    BY <1>4 DEF Placed!EndRefresh, Placed!fixed, Placed!counts
  <2>2. place' \in Places /\ (edits = 0 => place' = place)
    BY <1>0, <2>1 DEF TaskOK, CountsOK
  <2>3. CountsOK' /\ TaskOK(task', place', edits')
    BY <1>0, <2>1, <2>2 DEF TaskOK, CountsOK, Placed!Idle
  <2>4. StoredOK(stored', home', row', place', edits') /\ RotationOK(rotation', home', place', edits', keep')
    BY <1>0, <2>1, <2>2 DEF StoredOK, RotationOK
  <2> QED
    BY <2>1, <2>2, <2>3, <2>4 DEF DestinationsInv, Certain
<1>5. CASE Placed!EndHealth
  <2>1. /\ task.stage = "testing" /\ task' = Placed!Idle /\ health' \in Placed!Tested
        /\ UNCHANGED <<kind, keep, locked, place, required, stored, home, row, rotation, resolving, edits, outages, others>>
    BY <1>5 DEF Placed!EndHealth, Placed!fixed, Placed!settings, Placed!counts
  <2>2. TaskOK(task', place', edits')
    BY <2>1 DEF TaskOK, Placed!Idle
  <2>3. edits = 0 /\ health' = "object lock" => place \in locked
    BY <1>0, <2>1 DEF Placed!Tested, TaskOK
  <2> QED
    BY <2>1, <2>2, <2>3 DEF DestinationsInv, Certain, CountsOK
<1> QED
  BY <1>1, <1>2, <1>3, <1>4, <1>5

\* A file more at a place is a newer one for those that were there.
LEMMA UploadKeeps == ASSUME DestinationsInv, NEW f \in Files, Placed!Upload(f) PROVE DestinationsInv'
<1>0. CountsOK /\ StoredOK(stored, home, row, place, edits) /\ RotationOK(rotation, home, place, edits, keep)
  BY DEF DestinationsInv
<1>1. /\ row[f] = "none" /\ UNCHANGED <<kind, keep, locked, place, required, rotation, task, health, resolving, edits, outages, others>>
      /\ \/ stored' = [stored EXCEPT ![f] = place] /\ home' = [home EXCEPT ![f] = place]
         \/ UNCHANGED <<stored, home>>
      /\ \E r \in {"success", "failed"} : row' = [row EXCEPT ![f] = r]
  BY DEF Placed!Upload, Placed!fixed, Placed!settings, Placed!counts
<1>2. home[f] = Nowhere /\ stored[f] = Nowhere
  BY <1>0, <1>1 DEF StoredOK
<1>3. /\ row' \in [Files -> {"none", "success", "failed", "expired"}] /\ row'[f] \in {"success", "failed"}
      /\ \A g \in Files \ {f} : row'[g] = row[g]
  BY <1>0, <1>1 DEF StoredOK
<1>4. /\ stored' \in [Files -> Places \cup {Nowhere}] /\ home' \in [Files -> Places \cup {Nowhere}]
      /\ home'[f] \in {place, Nowhere} /\ stored'[f] = home'[f]
      /\ \A g \in Files \ {f} : home'[g] = home[g] /\ stored'[g] = stored[g]
  BY <1>0, <1>1, <1>2 DEF StoredOK, CountsOK
<1>5. StoredOK(stored', home', row', place', edits')
  BY <1>0, <1>1, <1>3, <1>4 DEF StoredOK
<1>6. RotationOK(rotation', home', place', edits', keep')
  <2>1. CASE rotation = Placed!Idle
    BY <1>1, <2>1 DEF RotationOK
  <2>2. CASE rotation # Placed!Idle
    <3>1. \A g \in rotation.seen : g \in Files /\ home[g] \in Places
      BY <1>0, <2>2 DEF RotationOK, Rotating
    <3>2. \A g \in rotation.seen : home'[g] = home[g]
      BY <1>2, <1>4, <3>1, TimersAssumption
    <3> QED
      BY <1>0, <1>1, <2>2, <3>2 DEF RotationOK
  <2> QED
    BY <2>1, <2>2
<1>7. others = 0 => RemovedRightly(stored', home', keep')
  <2> SUFFICES ASSUME others = 0, NEW g \in Files, stored'[g] # home'[g]
               PROVE  g \notin Foreign /\ keep > 0 /\ Cardinality(NewerThan(g, home')) >= keep
    BY <1>1 DEF RemovedRightly
  <2>1. g # f /\ stored[g] # home[g]
    BY <1>4
  <2>2. g \notin Foreign /\ keep > 0 /\ Cardinality(NewerThan(g, home)) >= keep
    BY <2>1 DEF DestinationsInv, RemovedRightly
  <2>3. home[g] # Nowhere
    BY <1>0, <2>1 DEF StoredOK
  <2>4. NewerThan(g, home) \subseteq NewerThan(g, home') /\ NewerThan(g, home') \subseteq Files
    BY <1>2, <1>4, <2>1, <2>3 DEF NewerThan
  <2>5. /\ Cardinality(NewerThan(g, home)) <= Cardinality(NewerThan(g, home'))
        /\ Cardinality(NewerThan(g, home)) \in Nat /\ Cardinality(NewerThan(g, home')) \in Nat
    BY <2>4, FilesCounted
  <2> QED
    BY <1>0, <2>2, <2>5 DEF CountsOK
<1>8. Certain => WrittenOff(stored', row')
  BY <1>3, <1>4 DEF DestinationsInv, WrittenOff
<1> QED
  BY <1>1, <1>5, <1>6, <1>7, <1>8 DEF DestinationsInv, CountsOK, Certain, TaskOK

\* A retention begins with the settings of the moment, and goes through the pages.
LEMMA ListingKeeps == ASSUME DestinationsInv, Placed!StartRotation \/ Placed!ReadPage \/ Placed!RotationEnds PROVE DestinationsInv'
<1>0. CountsOK /\ StoredOK(stored, home, row, place, edits) /\ RotationOK(rotation, home, place, edits, keep)
  BY DEF DestinationsInv
<1>1. UNCHANGED <<kind, keep, locked, place, required, stored, home, row, task, health, resolving, edits, outages, others>>
  BY DEF Placed!StartRotation, Placed!ReadPage, Placed!RotationEnds, Placed!fixed, Placed!settings, Placed!counts
<1>2. ASSUME Placed!StartRotation PROVE RotationOK(rotation', home', place', edits', keep')
  <2> DEFINE new == [stage |-> "listing", place |-> place, due |-> Placed!Listing(place), seen |-> {}, left |-> {}]
  <2>1. rotation' = new /\ keep > 0
    BY <1>2 DEF Placed!StartRotation
  <2>2. Placed!Listing(place) \in SUBSET Files
    BY DEF Placed!Listing
  <2>3. new \in Rotating /\ new.place = place /\ new.seen = {} /\ new.left = {}
    BY <1>0, <2>2 DEF Rotating, CountsOK
  <2> HIDE DEF new
  <2> QED
    BY <1>1, <2>1, <2>3 DEF RotationOK
<1>3. ASSUME Placed!ReadPage PROVE RotationOK(rotation', home', place', edits', keep')
  <2>1. PICK page \in SUBSET (Placed!Listing(rotation.place) \ rotation.seen) :
          LET more == rotation.seen \cup page
              end == rotation.due \cap Placed!Listing(rotation.place) \subseteq more
          IN  rotation' = [rotation EXCEPT !.seen = more, !.stage = IF end THEN "deleting" ELSE "listing",
                                           !.left = IF end THEN Placed!Excess(more) ELSE {}]
    BY <1>3 DEF Placed!ReadPage
  <2> DEFINE more == rotation.seen \cup page
             end == rotation.due \cap Placed!Listing(rotation.place) \subseteq more
             rest == IF end THEN Placed!Excess(more) ELSE {}
             stage == IF end THEN "deleting" ELSE "listing"
  <2>2. rotation.stage = "listing"
    BY <1>3 DEF Placed!ReadPage
  <2>3. rotation \in Rotating /\ keep > 0 /\ (edits = 0 => rotation.place = place) /\ rotation.place \in Places
    BY <1>0, <2>2 DEF RotationOK, Rotating, Placed!Idle
  <2>4. page \subseteq Files /\ \A f \in page : f \notin Foreign /\ home[f] = rotation.place
    BY <1>0, <2>3, TimersAssumption DEF Placed!Listing, StoredOK
  <2>5. \A f \in more : f \notin Foreign /\ home[f] = rotation.place
    BY <1>0, <2>2, <2>4 DEF RotationOK, Placed!Idle
  <2>6. more \subseteq Files
    BY <2>3, <2>4 DEF Rotating
  <2>7. \A S : Placed!Cardinality(S) = Cardinality(S)
    BY DEF Cardinality, Placed!Cardinality
  <2>8. rest \subseteq more /\ \A f \in rest : HasEnough(f, more, keep)
    BY <2>7 DEF Placed!Excess, HasEnough
  <2>9. stage \in {"listing", "deleting"}
    OBVIOUS
  <2>10. rotation' = [rotation EXCEPT !.seen = more, !.stage = stage, !.left = rest]
    BY <2>1
  <2> HIDE DEF more, rest, stage
  <2>11. rotation' \in Rotating /\ rotation'.seen = more /\ rotation'.left = rest /\ rotation'.place = rotation.place
    BY <2>3, <2>6, <2>8, <2>9, <2>10 DEF Rotating
  <2> QED
    BY <1>1, <2>3, <2>5, <2>8, <2>11 DEF RotationOK
<1>4. ASSUME Placed!RotationEnds PROVE RotationOK(rotation', home', place', edits', keep')
  BY <1>4 DEF Placed!RotationEnds, RotationOK
<1>5. RotationOK(rotation', home', place', edits', keep')
  BY <1>2, <1>3, <1>4
<1> QED
  BY <1>1, <1>5 DEF DestinationsInv, CountsOK, Certain

\* A file that a retention goes on to is one of the schedule, where it was uploaded to,
\* with enough newer ones.
LEMMA LeftIsExcess ==
  ASSUME DestinationsInv, rotation.stage = "deleting", NEW f \in rotation.left
  PROVE  /\ f \in Files /\ f \notin Foreign /\ keep > 0 /\ home[f] = rotation.place /\ rotation.place \in Places
         /\ Cardinality(NewerThan(f, home)) >= keep
<1>0. RotationOK(rotation, home, place, edits, keep) /\ CountsOK /\ rotation # Placed!Idle
  <2>1. RotationOK(rotation, home, place, edits, keep) /\ CountsOK
    BY DEF DestinationsInv
  <2>2. rotation # Placed!Idle
    BY DEF Placed!Idle
  <2> QED
    BY <2>1, <2>2
<1>1. /\ rotation \in Rotating /\ keep > 0 /\ keep \in Nat
      /\ f \in rotation.seen /\ HasEnough(f, rotation.seen, keep)
      /\ \A g \in rotation.seen : g \notin Foreign /\ home[g] = rotation.place
  BY <1>0 DEF RotationOK, CountsOK
<1>2. rotation.seen \subseteq Files /\ rotation.place \in Places
  BY <1>1 DEF Rotating
<1>3. {g \in rotation.seen : g > f} \subseteq NewerThan(f, home) /\ NewerThan(f, home) \subseteq Files
  BY <1>1, <1>2 DEF NewerThan
<1>4. /\ Cardinality({g \in rotation.seen : g > f}) <= Cardinality(NewerThan(f, home))
      /\ Cardinality({g \in rotation.seen : g > f}) \in Nat /\ Cardinality(NewerThan(f, home)) \in Nat
  BY <1>3, FilesCounted
<1>5. Cardinality({g \in rotation.seen : g > f}) >= keep
  BY <1>1 DEF HasEnough
<1> QED
  BY <1>1, <1>2, <1>4, <1>5

\* A file is removed that has enough newer ones; the others are as they were.
LEMMA RemovalKeeps ==
  ASSUME DestinationsInv, NEW f \in Files, f \notin Foreign, keep > 0, Cardinality(NewerThan(f, home)) >= keep,
         stored' = [stored EXCEPT ![f] = Nowhere], UNCHANGED <<home, keep, place, edits>>,
         NEW r, r \in [Files -> {"none", "success", "failed", "expired"}], \A g \in Files : r[g] = "none" => row[g] = "none",
         \A g \in Files \ {f} : r[g] = row[g]
  PROVE  /\ StoredOK(stored', home', r, place', edits')
         /\ others = 0 => RemovedRightly(stored', home', keep')
         /\ Certain => WrittenOff(stored', r)
<1>1. StoredOK(stored, home, row, place, edits)
  BY DEF DestinationsInv
<1>2. stored' \in [Files -> Places \cup {Nowhere}] /\ stored'[f] = Nowhere /\ \A g \in Files \ {f} : stored'[g] = stored[g]
  BY <1>1 DEF StoredOK
<1>3. StoredOK(stored', home', r, place', edits')
  BY <1>1, <1>2 DEF StoredOK
<1>4. others = 0 => RemovedRightly(stored', home', keep')
  BY <1>2 DEF DestinationsInv, RemovedRightly
<1>5. Certain => WrittenOff(stored', r)
  BY <1>2 DEF DestinationsInv, WrittenOff
<1> QED
  BY <1>3, <1>4, <1>5

\* Retention removes what it goes on to, or passes it over.
LEMMA DeleteKeeps == ASSUME DestinationsInv, Placed!Delete PROVE DestinationsInv'
<1>0. CountsOK /\ StoredOK(stored, home, row, place, edits) /\ RotationOK(rotation, home, place, edits, keep) /\ TaskOK(task, place, edits)
  BY DEF DestinationsInv
<1> DEFINE f == Placed!Max(rotation.left)
<1>1. rotation.stage = "deleting" /\ rotation.left # {}
      /\ UNCHANGED <<kind, keep, locked, place, required, home, task, health, resolving, edits, outages, others>>
  BY DEF Placed!Delete, Placed!fixed, Placed!settings, Placed!counts
<1>2. rotation' = [rotation EXCEPT !.left = rotation.left \ {f}]
  BY DEF Placed!Delete, Placed!Passed
<1>3. \/ stored' = [stored EXCEPT ![f] = Nowhere] /\ Placed!Expire(f)
      \/ UNCHANGED stored /\ UNCHANGED row
      \/ UNCHANGED stored /\ stored[f] # rotation.place /\ Placed!Expire(f)
  BY DEF Placed!Delete
<1>4. rotation \in Rotating /\ (edits = 0 => rotation.place = place)
  BY <1>0, <1>1 DEF RotationOK, Placed!Idle
<1>5. f \in rotation.left
  BY <1>1, <1>4, NextIsLeft DEF Rotating
<1> HIDE DEF f
<1>6. /\ f \in Files /\ f \notin Foreign /\ keep > 0 /\ home[f] = rotation.place /\ rotation.place \in Places
      /\ Cardinality(NewerThan(f, home)) >= keep
  BY <1>1, <1>5, LeftIsExcess
<1>7. rotation' \in Rotating /\ rotation'.seen = rotation.seen /\ rotation'.place = rotation.place /\ rotation'.left \subseteq rotation.left
  BY <1>2, <1>4 DEF Rotating
<1>8. RotationOK(rotation', home', place', edits', keep')
  <2>1. rotation # Placed!Idle
    BY <1>1 DEF Placed!Idle
  <2> QED
    BY <1>0, <1>1, <1>7, <2>1 DEF RotationOK
<1>9. Placed!Expire(f) =>
        /\ row' \in [Files -> {"none", "success", "failed", "expired"}]
        /\ \A g \in Files : row'[g] = "none" => row[g] = "none"
        /\ \A g \in Files \ {f} : row'[g] = row[g]
  BY <1>0, <1>6 DEF Placed!Expire, StoredOK
<1>10. /\ StoredOK(stored', home', row', place', edits')
       /\ others = 0 => RemovedRightly(stored', home', keep')
       /\ Certain => WrittenOff(stored', row')
  <2>1. CASE stored' = [stored EXCEPT ![f] = Nowhere] /\ Placed!Expire(f)
    BY <1>1, <1>6, <1>9, <2>1, RemovalKeeps
  <2>2. CASE UNCHANGED stored /\ UNCHANGED row
    BY <1>1, <2>2 DEF DestinationsInv
  <2>3. CASE UNCHANGED stored /\ stored[f] # rotation.place /\ Placed!Expire(f)
    <3>1. stored[f] = Nowhere
      BY <1>0, <1>6, <2>3 DEF StoredOK
    <3>2. StoredOK(stored', home', row', place', edits')
      BY <1>0, <1>1, <1>9, <2>3 DEF StoredOK
    <3>3. Certain => WrittenOff(stored', row')
      BY <1>9, <2>3, <3>1 DEF DestinationsInv, WrittenOff
    <3> QED
      BY <1>1, <2>3, <3>2, <3>3 DEF DestinationsInv
  <2> QED
    BY <1>3, <2>1, <2>2, <2>3
<1> QED
  BY <1>1, <1>8, <1>10 DEF DestinationsInv, CountsOK, Certain

\* An error may have removed the file that was next.
LEMMA FailureKeeps == ASSUME DestinationsInv, Placed!RotationFails PROVE DestinationsInv'
<1>0. CountsOK /\ StoredOK(stored, home, row, place, edits) /\ RotationOK(rotation, home, place, edits, keep) /\ TaskOK(task, place, edits)
  BY DEF DestinationsInv
<1> DEFINE f == Placed!Max(rotation.left)
<1>1. rotation' = Placed!Idle
      /\ UNCHANGED <<kind, keep, locked, place, required, home, row, task, health, resolving, edits, outages, others>>
  BY DEF Placed!RotationFails, Placed!fixed, Placed!settings, Placed!counts
<1>2. \/ UNCHANGED stored
      \/ rotation.stage = "deleting" /\ rotation.left # {} /\ stored' = [stored EXCEPT ![f] = IF stored[f] = rotation.place THEN Nowhere ELSE stored[f]]
  BY DEF Placed!RotationFails
<1>3. RotationOK(rotation', home', place', edits', keep')
  BY <1>1 DEF RotationOK
<1>4. /\ StoredOK(stored', home', row', place', edits')
      /\ others = 0 => RemovedRightly(stored', home', keep')
      /\ Certain => WrittenOff(stored', row')
  <2>1. CASE UNCHANGED stored
    BY <1>1, <2>1 DEF DestinationsInv
  <2>2. CASE rotation.stage = "deleting" /\ rotation.left # {} /\ stored' = [stored EXCEPT ![f] = IF stored[f] = rotation.place THEN Nowhere ELSE stored[f]]
    <3>1. rotation \in Rotating
      BY <1>0, <2>2 DEF RotationOK, Placed!Idle
    <3>2. f \in rotation.left
      BY <2>2, <3>1, NextIsLeft DEF Rotating
    <3> HIDE DEF f
    <3>3. f \in Files /\ f \notin Foreign /\ keep > 0 /\ Cardinality(NewerThan(f, home)) >= keep
      BY <2>2, <3>2, LeftIsExcess
    <3>4. stored' = stored \/ stored' = [stored EXCEPT ![f] = Nowhere]
      BY <1>0, <2>2, <3>3 DEF StoredOK
    <3>5. row \in [Files -> {"none", "success", "failed", "expired"}]
      BY <1>0 DEF StoredOK
    <3>6. CASE stored' = [stored EXCEPT ![f] = Nowhere]
      BY <1>1, <3>3, <3>5, <3>6, RemovalKeeps
    <3> QED
      BY <1>1, <2>1, <3>4, <3>6
  <2> QED
    BY <1>2, <2>1, <2>2
<1> QED
  BY <1>1, <1>3, <1>4 DEF DestinationsInv, CountsOK, Certain

\* What is found to be missing is not there, unless a host is not found.
LEMMA ReplyKeeps == ASSUME DestinationsInv, Placed!Reply PROVE DestinationsInv'
<1>0. CountsOK /\ StoredOK(stored, home, row, place, edits) /\ TaskOK(task, place, edits)
  BY DEF DestinationsInv
<1>1. /\ task.stage = "asked" /\ task' = Placed!Idle
      /\ UNCHANGED <<kind, keep, locked, place, required, stored, home, rotation, health, resolving, edits, outages, others>>
      /\ \/ Placed!Missing(task.file, task.place) /\ Placed!Expire(task.file)
         \/ UNCHANGED row
  BY DEF Placed!Reply, Placed!fixed, Placed!settings, Placed!counts
<1>2. task.file \in Files /\ (edits = 0 => task.place = place)
  BY <1>0, <1>1 DEF TaskOK
<1>3. TaskOK(task', place', edits')
  BY <1>1 DEF TaskOK, Placed!Idle
<1>4. StoredOK(stored', home', row', place', edits') /\ (Certain => WrittenOff(stored', row'))
  <2>1. CASE UNCHANGED row
    BY <1>1, <2>1 DEF DestinationsInv
  <2>2. CASE Placed!Missing(task.file, task.place) /\ Placed!Expire(task.file)
    <3>1. /\ row' \in [Files -> {"none", "success", "failed", "expired"}]
          /\ \A g \in Files : row'[g] = "none" => row[g] = "none"
          /\ \A g \in Files \ {task.file} : row'[g] = row[g]
      BY <1>0, <1>2, <2>2 DEF Placed!Expire, StoredOK
    <3>2. Certain => stored[task.file] = Nowhere
      BY <1>0, <1>2, <2>2 DEF Certain, Placed!Missing, Placed!TakenForMissing, Placed!Unresolved, CountsOK, StoredOK
    <3>3. StoredOK(stored', home', row', place', edits')
      BY <1>0, <1>1, <3>1 DEF StoredOK
    <3>4. Certain => WrittenOff(stored', row')
      BY <1>1, <3>1, <3>2 DEF DestinationsInv, WrittenOff
    <3> QED
      BY <3>3, <3>4
  <2> QED
    BY <1>1, <2>1, <2>2
<1> QED
  BY <1>1, <1>3, <1>4 DEF DestinationsInv, CountsOK, Certain

\* No other side touches them.
LEMMA DestinationsStep == DestinationsInv /\ [TimersNext]_<<scheduleVars, destinations, catalog, tools, assets, side>> => DestinationsInv'
<1> SUFFICES ASSUME DestinationsInv, [TimersNext]_<<scheduleVars, destinations, catalog, tools, assets, side>> PROVE DestinationsInv'
  OBVIOUS
<1>1. ASSUME UNCHANGED destinations PROVE DestinationsInv'
  <2>1. UNCHANGED <<kind, keep, locked, place, required, stored, home, row, rotation, task, health, resolving, edits, outages, others>>
    BY <1>1 DEF destinations
  <2> QED
    BY <2>1 DEF DestinationsInv, CountsOK, Certain
<1>2. ASSUME Placed!DestinationsNext PROVE DestinationsInv'
  BY <1>2, ResolveKeeps, SaveKeeps, LoseKeeps, UploadKeeps, TaskKeeps, ListingKeeps, DeleteKeeps, FailureKeeps, ReplyKeeps
     DEF Placed!DestinationsNext
<1>3. UNCHANGED destinations \/ Placed!DestinationsNext
  BY DEF TimersNext
<1> QED
  BY <1>1, <1>2, <1>3

\* At every kind of destination, whatever fails or is edited, retention removes a file
\* only if newer ones, as many as are kept, were stored at its place.  A success is written
\* off only when its file is not there, as long as names resolve for FTP and S3 and the
\* settings of a destination other than a drive do not change; and a lock is claimed where
\* there is one, as long as they do not change (storage/storage.service.ts).
THEOREM DestinationsCorrect == TimersSpec => []DestinationsAgree
<1>1. TimersInit => DestinationsInv
  BY DestinationsStart DEF TimersInit
<1>2. DestinationsInv => DestinationsAgree
  <2> SUFFICES ASSUME DestinationsInv PROVE DestinationsAgree
    OBVIOUS
  <2>1. Placed!RetentionIsRight
    <3>1. \A S : Placed!Cardinality(S) = Cardinality(S)
      BY DEF Cardinality, Placed!Cardinality
    <3>2. \A f \in Files : Placed!Newer(f) = NewerThan(f, home)
      BY DEF Placed!Newer, NewerThan
    <3> QED
      BY <3>1, <3>2 DEF DestinationsInv, RemovedRightly, Placed!RetentionIsRight
  <2>2. Placed!WrittenOffIsGone
    BY DEF DestinationsInv, Certain, WrittenOff, Placed!WrittenOffIsGone
  <2>3. Placed!EnforcedIsLocked
    BY DEF DestinationsInv, Placed!ProviderEnforced, Placed!EnforcedIsLocked
  <2> QED
    BY <2>1, <2>2, <2>3 DEF DestinationsAgree, Placed!DestinationsAgree
<1> QED
  BY <1>1, <1>2, DestinationsStep, PTL DEF TimersSpec
=============================================================================
