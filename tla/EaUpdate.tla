------------------------------ MODULE EaUpdate ------------------------------
(***************************************************************************)
(* The EA's update of itself: the server's version check and cached        *)
(* download (routes/ea_versions.py), the DLL's download, file swap and     *)
(* restart script (ptwebsocket.cpp), and the EA that calls them.  Three    *)
(* files in the terminal's Experts folder matter: the EA, EA_new, EA.bak.  *)
(***************************************************************************)
EXTENDS Integers

CONSTANTS MaxRelease, \* bound on releases
          MaxStarts   \* bound on starts of the terminal

ASSUME EaUpdateAssumption == MaxRelease \in Nat /\ MaxStarts \in Nat

Releases == 0..MaxRelease
Missing == -1
Torn == -2   \* cut short: no terminal loads it
Content == Releases \cup {Missing, Torn}
Limit == 3

VARIABLES
    released,   \* the EA file on the server
    announced,  \* _ea_versions, read when the server starts
    cachedAs, cached, \* _ea_file_cache: the file's mtime and its data
    curFile, newFile, bakFile, \* the three files
    running,    \* the release the terminal runs
    phase,      \* what the EA is doing
    payload,    \* what the server has read, and then what the EA downloads
    downloaded, \* g_updateDownloaded
    cooled,     \* 60 s have passed since the EA started
    script,     \* the restart script: none, waiting for the exit, has deleted the EA
    count,      \* the restart counter file
    starts,     \* starts of the terminal
    cutShort    \* a torn download was left on the disk (history)

server == <<released, announced, cachedAs, cached>>
files == <<curFile, newFile, bakFile>>
upVars == <<server, files, running, phase, payload, downloaded, cooled, script, count, starts, cutShort>>

UpTypeOK ==
    /\ released \in Releases /\ announced \in Releases
    /\ cachedAs \in Releases \cup {Missing} /\ cached \in Releases \cup {Missing}
    /\ {curFile, newFile, bakFile, payload} \subseteq Content
    /\ running \in Releases \cup {Missing}
    /\ phase \in {"off", "init", "moved", "up", "asks", "read", "gets", "writes"}
    /\ downloaded \in BOOLEAN /\ cooled \in BOOLEAN /\ cutShort \in BOOLEAN
    /\ script \in {"none", "waits", "deleted"} /\ count \in 0..(Limit + 1) /\ starts \in 0..MaxStarts

UpInit ==
    /\ released = 0 /\ announced = 0 /\ cachedAs = Missing /\ cached = Missing
    /\ curFile = 0 /\ newFile = Missing /\ bakFile = Missing
    /\ running = Missing /\ phase = "off" /\ payload = Missing
    /\ downloaded = FALSE /\ cooled = FALSE /\ script = "none" /\ count = 0 /\ starts = 0
    /\ cutShort = FALSE

-----------------------------------------------------------------------------
\* A new EA is put on the server; its version is announced after a restart.
Publish ==
    /\ released < MaxRelease /\ released' = released + 1
    /\ UNCHANGED <<announced, cachedAs, cached, files, running, phase, payload, downloaded, cooled, script,
                   count, starts, cutShort>>

RestartServer ==
    /\ announced' = released /\ cachedAs' = Missing /\ cached' = Missing
    /\ phase' = IF phase = "read" THEN "up" ELSE phase
    /\ UNCHANGED <<released, files, running, payload, downloaded, cooled, script, count, starts, cutShort>>

\* check_ea_update, and the EA's comparison.
Check ==
    /\ phase = "up" /\ ~downloaded /\ announced > running /\ phase' = "asks"
    /\ UNCHANGED <<server, files, running, payload, downloaded, cooled, script, count, starts, cutShort>>

\* _get_ea_download: the cache while the file's mtime is the cached one, or the
\* file, which is read first and asked for its mtime afterwards.
Serve ==
    /\ phase = "asks"
    /\ IF cachedAs = released THEN payload' = cached /\ phase' = "gets"
       ELSE payload' = released /\ phase' = "read"
    /\ UNCHANGED <<server, files, running, downloaded, cooled, script, count, starts, cutShort>>

RememberFile ==
    /\ phase = "read" /\ phase' = "gets" /\ cached' = payload /\ cachedAs' = released
    /\ UNCHANGED <<released, announced, files, running, payload, downloaded, cooled, script, count, starts, cutShort>>

-----------------------------------------------------------------------------
\* PTWS_DownloadFile: a request or a status that fails leaves nothing, a body
\* that ends early is what it got so far.  The EA then tries WebRequest, whose
\* file goes to the sandbox, where no script looks; it counts as downloaded.
Request ==
    /\ phase = "gets" /\ phase' = "up" /\ downloaded' \in BOOLEAN
    /\ UNCHANGED <<server, files, running, payload, cooled, script, count, starts, cutShort>>

ReadBody ==
    /\ phase = "gets" /\ phase' = "writes" /\ newFile' = Torn
    /\ \/ payload' = payload /\ cutShort' = cutShort
       \/ payload' = Torn /\ cutShort' = TRUE
    /\ UNCHANGED <<server, curFile, bakFile, running, downloaded, cooled, script, count, starts>>

\* WriteDataToFile, after CREATE_ALWAYS has emptied the file.
WriteFile ==
    /\ phase = "writes" /\ phase' = "up"
    /\ \/ newFile' = payload /\ downloaded' = TRUE
       \/ newFile' = Missing /\ downloaded' \in BOOLEAN
    /\ UNCHANGED <<server, curFile, bakFile, running, payload, cooled, script, count, starts, cutShort>>

-----------------------------------------------------------------------------
\* The terminal is started, by hand or by the script's last line.
Started ==
    /\ running' = curFile' /\ phase' = "init" /\ downloaded' = FALSE /\ cooled' = FALSE
    /\ starts' = starts + 1

Start ==
    /\ phase = "off" /\ curFile \in Releases /\ starts < MaxStarts
    /\ UNCHANGED <<server, files, payload, script, count, cutShort>>
    /\ Started

\* Mutant: the current file is deleted and not kept as .bak.
BackupNone == Missing

Backup == curFile

\* CheckPendingEAUpdate and PTWS_ApplyUpdate, in OnInit: the old backup is
\* deleted and the EA renamed to .bak, unless it is locked; the counter is
\* cleared (PTWS_ClearRestartCounter).
NothingPending ==
    /\ phase = "init" /\ newFile = Missing /\ phase' = "up" /\ count' = 0
    /\ UNCHANGED <<server, files, running, payload, downloaded, cooled, script, starts, cutShort>>

MoveAside ==
    /\ phase = "init" /\ newFile # Missing /\ phase' = "moved"
    /\ \/ bakFile' = Backup /\ curFile' = Missing
       \/ bakFile' = Missing /\ curFile' = curFile
    /\ UNCHANGED <<server, newFile, running, payload, downloaded, cooled, script, count, starts, cutShort>>

\* The new file takes the place, or, where that fails, the backup goes back to
\* it, or that fails too.
MoveIn ==
    /\ phase = "moved" /\ phase' = "up" /\ count' = 0
    /\ \/ /\ curFile = Missing /\ newFile # Missing
          /\ curFile' = newFile /\ newFile' = Missing /\ bakFile' = bakFile
       \/ /\ curFile = Missing
          /\ curFile' = bakFile /\ bakFile' = Missing /\ newFile' = newFile
       \/ UNCHANGED files
    /\ UNCHANGED <<server, running, payload, downloaded, cooled, script, starts, cutShort>>

Cool ==
    /\ phase = "up" /\ ~cooled /\ cooled' = TRUE
    /\ UNCHANGED <<server, files, running, phase, payload, downloaded, script, count, starts, cutShort>>

\* TriggerAutoRestart and PTWS_ScheduleRestart: over the limit, or where the
\* script cannot be started, there is no script, and the terminal is closed all
\* the same (TerminalClose may fail: then the next timer tries again).
TriggerAutoRestart ==
    /\ phase = "up" /\ downloaded /\ cooled
    /\ count' = IF count > Limit THEN count ELSE count + 1
    /\ IF count >= Limit \/ script # "none" THEN script' = script ELSE script' \in {"none", "waits"}
    /\ \/ phase' = "off" /\ running' = Missing
       \/ UNCHANGED <<phase, running>>
    /\ UNCHANGED <<server, files, payload, downloaded, cooled, starts, cutShort>>

\* The script gives up while the terminal runs; after its exit it deletes the EA
\* where there is a new one (in vain while a terminal started meanwhile has it
\* open), renames the new one unless it is being written, clears the counter and
\* starts the terminal.
GiveUp ==
    /\ script = "waits" /\ phase # "off" /\ script' = "none"
    /\ UNCHANGED <<server, files, running, phase, payload, downloaded, cooled, count, starts, cutShort>>

DeleteOld ==
    /\ script = "waits" /\ script' = "deleted"
    /\ curFile' = IF newFile # Missing /\ phase = "off" THEN Missing ELSE curFile
    /\ UNCHANGED <<server, newFile, bakFile, running, phase, payload, downloaded, cooled, count, starts, cutShort>>

RenameNew ==
    /\ script = "deleted" /\ script' = "none" /\ count' = 0
    /\ IF curFile = Missing /\ newFile # Missing /\ phase # "writes"
       THEN curFile' = newFile /\ newFile' = Missing
       ELSE UNCHANGED <<curFile, newFile>>
    /\ IF phase = "off" /\ curFile' \in Releases /\ starts < MaxStarts
       THEN Started
       ELSE UNCHANGED <<running, phase, downloaded, cooled, starts>>
    /\ UNCHANGED <<server, bakFile, payload, cutShort>>

\* The terminal, or the machine and with it the script, stops at any point.
Crash ==
    /\ phase # "off" \/ script # "none"
    /\ phase' = "off" /\ running' = Missing /\ script' \in {script, "none"}
    /\ cutShort' = (cutShort \/ phase = "writes")
    /\ UNCHANGED <<server, files, payload, downloaded, cooled, count, starts>>

-----------------------------------------------------------------------------
Server == Publish \/ RestartServer \/ Serve \/ RememberFile
Download == Check \/ Request \/ ReadBody \/ WriteFile
Swap == NothingPending \/ MoveAside \/ MoveIn
Script == GiveUp \/ DeleteOld \/ RenameNew

UpNext == Server \/ Download \/ Swap \/ Script \/ Start \/ Cool \/ TriggerAutoRestart \/ Crash

UpSpec == UpInit /\ [][UpNext]_upVars

-----------------------------------------------------------------------------
\* Wherever the terminal, the machine or the script stops in a swap, whoever
\* renames first and whatever is locked, a whole EA is left among the three
\* files.  (Not so once a download was cut short, by the network or by a crash
\* while it was written: nothing checks EA_new, and the script deletes the EA to
\* rename it.)
WholeCopyKept ==
    ~cutShort => {curFile, newFile, bakFile} \cap Releases # {}
=============================================================================
