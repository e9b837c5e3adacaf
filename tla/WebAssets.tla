------------------------------ MODULE WebAssets ------------------------------
(***************************************************************************)
(* The page and its scripts, as main.ts serves them and as                 *)
(* system/asset-cache.service.ts names them by their content, while an     *)
(* updater replaces the files one by one, the process restarts, and        *)
(* caches between it and a browser keep what they may.                     *)
(***************************************************************************)
EXTENDS Naturals, FiniteSets

CONSTANTS
  Scripts,      \* files that the page refers to
  Releases,     \* 1 .. n; every release changes every file
  Absent,
  Tabs,
  MaxChanges    \* bound on copies, restarts and settings

VARIABLES
  disk,         \* the release of each file, "page" and the scripts
  memory,       \* what the process read when it started
  whole,        \* history: it read files of one release
  enabled,      \* the setting of the cache
  cache,        \* paths with a hash, and what they were answered with
  tab,          \* the page a browser shows, what it refers to and has loaded
  changes

assetsVars == <<disk, memory, whole, enabled, cache, tab, changes>>

AllFiles == Scripts \cup {"page"}
Blank == [page |-> Absent]

AssetsInit ==
  /\ disk = [f \in AllFiles |-> 1] /\ memory = disk /\ whole = TRUE
  /\ enabled = TRUE /\ cache = {}
  /\ tab = [t \in Tabs |-> Blank] /\ changes = 0

Changes == changes < MaxChanges /\ changes' = changes + 1

\* An update, or its way back: one file after the other, and each away for a moment.
Replace(f, r) ==
  /\ Changes /\ disk' = [disk EXCEPT ![f] = r]
  /\ UNCHANGED <<memory, whole, enabled, cache, tab>>

\* buildVersionedAssetManifest() and the page, read once.
Restart ==
  /\ Changes /\ disk["page"] # Absent
  /\ memory' = disk /\ whole' = (\A f \in AllFiles : disk[f] = disk["page"])
  /\ UNCHANGED <<disk, enabled, cache, tab>>

\* saveConfig()
Configure ==
  /\ Changes /\ enabled' = ~enabled
  /\ UNCHANGED <<disk, memory, whole, cache, tab>>

\* rewriteVersionedAssetReferences() names the scripts that were there by their
\* content, and leaves other references alone.
Refers == [s \in Scripts |-> memory[s]]

\* The page is never stored.
Open(t) ==
  /\ tab' = [tab EXCEPT ![t] = [page |-> memory["page"], whole |-> whole, refers |-> Refers,
                                loaded |-> [s \in Scripts |-> Absent], asked |-> {}]]
  /\ UNCHANGED <<disk, memory, whole, enabled, cache, changes>>

Got(t, s, content) == tab' = [tab EXCEPT ![t].loaded[s] = content, ![t].asked = @ \cup {s}]

Asks(t, s) == tab[t] # Blank /\ s \notin tab[t].asked

\* A browser or an edge may have it.
FromCache(t, s) ==
  /\ Asks(t, s)
  /\ \E entry \in cache : entry.script = s /\ entry.hash = tab[t].refers[s] /\ Got(t, s, entry.content)
  /\ UNCHANGED <<disk, memory, whole, enabled, cache, changes>>

\* With a bug: the file of that name.
ServedFile(s, hash) == disk[s]

\* A path with a hash is answered from memory, if it is one of this process.
Served(s, hash) == IF memory[s] = hash THEN memory[s] ELSE Absent

\* Only what was found may be stored.
FromProcess(t, s) ==
  /\ Asks(t, s) /\ tab[t].refers[s] # Absent
  /\ LET hash == tab[t].refers[s]
         content == Served(s, hash)
     IN /\ Got(t, s, content)
        /\ cache' = IF enabled /\ content # Absent THEN cache \cup {[script |-> s, hash |-> hash, content |-> content]} ELSE cache
  /\ UNCHANGED <<disk, memory, whole, enabled, changes>>

\* Any other path is read from the disk, and never stored.
FromDisk(t, s) ==
  /\ Asks(t, s) /\ tab[t].refers[s] = Absent /\ Got(t, s, disk[s])
  /\ UNCHANGED <<disk, memory, whole, enabled, cache, changes>>

AssetsNext ==
  \/ Restart \/ Configure
  \/ \E f \in AllFiles, r \in Releases \cup {Absent} : Replace(f, r)
  \/ \E t \in Tabs : Open(t) \/ \E s \in Scripts : FromCache(t, s) \/ FromProcess(t, s) \/ FromDisk(t, s)

AssetsSpec == AssetsInit /\ [][AssetsNext]_assetsVars

-----------------------------------------------------------------------------
(* Properties *)

\* docs/CLOUDFLARE_CACHE.md:23-26: what is kept under a hash is what has the hash, in
\* every cache and for ever.
CacheTrue == \A entry \in cache : entry.content = entry.hash

\* A page that was opened from a whole release loads its own scripts or none: not
\* those of the next one, which an update has put in their place.
PageIsOneRelease ==
  \A t \in Tabs : tab[t] # Blank =>
    (tab[t].whole => \A s \in tab[t].asked : tab[t].loaded[s] \in {tab[t].page, Absent})

AssetsAgree == CacheTrue /\ PageIsOneRelease
==============================================================================
