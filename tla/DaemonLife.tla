------------------------------ MODULE DaemonLife -----------------------------
(***************************************************************************)
(* The life of daemon processes (src/daemon/mod.rs, the socket of          *)
(* src/daemon/server.rs, `gw daemon' in src/commands/daemon.rs): starting, *)
(* counting the crash of the one before, the lock on daemon.pid, the       *)
(* daemon.running marker, the socket, an orderly end and a sudden one.     *)
(*                                                                         *)
(* A process is its PID, which is not used twice; an inode of daemon.pid   *)
(* is named d if daemon d has made it, -d if its parent has.  What a       *)
(* daemon does to runs and queues while it boots, serves and ends is the   *)
(* subject of the other modules.                                           *)
(***************************************************************************)
EXTENDS CrashLoop, FiniteSets

CONSTANTS
    Daemons,    \* PIDs
    Commands,   \* what users do: "background", "signal", "stop"
    MaxDeaths   \* sudden ends of a daemon (model bound)

ASSUME DaemonAssumption ==
    /\ Daemons \subseteq Nat \ {0}
    /\ Commands \subseteq {"background", "signal", "stop"}
    /\ MaxDeaths \in Nat

VARIABLES
    pc,         \* where each process is in `daemon start --foreground'
    inode,      \* its open daemon.pid
    cancelled,  \* the processes that have been asked to shut down
    pidFile,    \* the inode daemon.pid names, 0 if there is none
    pidContent, \* the PID in that file, or 0
    marker,     \* daemon.running exists
    socket,     \* daemon.sock: who bound it, or 0
    history,    \* crash-history.json
    flag,       \* crashloop.flag exists
    parents,    \* whose parent has yet to write daemon.pid (one or none)
    stopping,   \* a `gw daemon stop' has yet to remove daemon.pid
    deaths,     \* so far
    uncounted,  \* history: dead daemons whose crash is not counted yet
    unlinked    \* history: daemon.pid was removed under one who had it open

files == <<pidFile, pidContent, marker, socket, history, flag>>
users == <<cancelled, parents, stopping, deaths>>
ghosts == <<uncounted, unlinked>>
lifeVars == <<pc, inode, files, users, ghosts>>

Alive(d) == pc[d] \notin {"off", "gone"}

(* From the marker on, until it has been removed again.                    *)
Marked == {"bind", "listen", "serve", "down"}

Locked == Marked \cup {"mark", "unlock"}

Holds(d, i) == pc[d] \in Locked /\ inode[d] = i

Goes(d, next) == pc' = [pc EXCEPT ![d] = next]

(* The kernel closes the file and releases the lock.                       *)
Exit(d) == Goes(d, "gone") /\ inode' = [inode EXCEPT ![d] = 0]

(* To lock it, or locked.                                                  *)
HasOpen(d) == pc[d] \in Locked \cup {"lock"}

(* Whoever has the file open is left with an inode that has no name.       *)
Unlink ==
    /\ pidFile' = 0 /\ pidContent' = 0
    /\ unlinked' = (unlinked \/ \E d \in Daemons : HasOpen(d) /\ inode[d] = pidFile)

----------------------------------------------------------------------------
(* `gw daemon start': the process itself, which launchd starts directly,   *)
(* and the parent that has started it in the background.  PIDs are given   *)
(* out in order.                                                           *)
Launch(d) ==
    /\ pc[d] = "off"
    /\ \A e \in Daemons : e < d => pc[e] # "off"
    /\ Goes(d, "probe")
    /\ \/ "background" \in Commands /\ parents = {} /\ parents' = {d}
       \/ UNCHANGED parents
    /\ UNCHANGED <<inode, files, cancelled, stopping, deaths, ghosts>>

(* Mutant: an atomic replacement of the file, by rename.                   *)
ParentWrites_Renames(d) ==
    /\ d \in parents
    /\ parents' = parents \ {d}
    /\ pidFile' = -d
    /\ pidContent' = d
    /\ UNCHANGED <<pc, inode, marker, socket, history, flag>>
    /\ UNCHANGED <<cancelled, stopping, deaths, ghosts>>

(* fs::write keeps the inode and whoever has locked it.                    *)
ParentWrites(d) ==
    /\ d \in parents
    /\ parents' = parents \ {d}
    /\ pidFile' = IF pidFile = 0 THEN -d ELSE pidFile
    /\ pidContent' = d
    /\ UNCHANGED <<pc, inode, marker, socket, history, flag>>
    /\ UNCHANGED <<cancelled, stopping, deaths, ghosts>>

(* is_daemon_running: a daemon that has been cancelled may still answer.   *)
Reachable == socket # 0 /\ pc[socket] = "serve"

Probe(d) ==
    /\ pc[d] = "probe"
    /\ \/ Reachable /\ Goes(d, "gone")
       \/ (Reachable => socket \in cancelled) /\ Goes(d, "detect")
    /\ UNCHANGED <<inode, files, users, ghosts>>

(* Step 1a of start_daemon: a marker found is a crash, some time after the *)
(* last one on record.                                                     *)
LoadAfter(time) ==
    Load(IF history = <<>> THEN <<>> ELSE <<Elapse(history[1], time)>>)

Detect(d) ==
    /\ pc[d] = "detect"
    /\ \E time \in 0..Window :
         LET det == Recorded(LoadAfter(time), 0)
             halt == marker /\ Stops(det, 0)
         IN  /\ IF halt THEN Exit(d) ELSE Goes(d, "open") /\ UNCHANGED inode
             /\ flag' = halt
             /\ history' = IF marker THEN Persist(det) ELSE history
    /\ uncounted' = IF marker THEN {} ELSE uncounted
    /\ UNCHANGED <<pidFile, pidContent, marker, socket, users, unlinked>>

OpenPidFile(d) ==
    /\ pc[d] = "open"
    /\ pidFile' = IF pidFile = 0 THEN d ELSE pidFile
    /\ inode' = [inode EXCEPT ![d] = pidFile']
    /\ Goes(d, "lock")
    /\ UNCHANGED <<pidContent, marker, socket, history, flag, users, ghosts>>

(* try_lock_exclusive, and our PID over the one that was there.            *)
LockPidFile(d) ==
    /\ pc[d] = "lock"
    /\ ~\E e \in Daemons : Holds(e, inode[d])
    /\ pidContent' = IF inode[d] = pidFile THEN d ELSE pidContent
    /\ Goes(d, "mark")
    /\ UNCHANGED <<inode, pidFile, marker, socket, history, flag, users, ghosts>>

AlreadyRunning(d) ==
    /\ pc[d] = "lock"
    /\ \E e \in Daemons : Holds(e, inode[d])
    /\ Exit(d)
    /\ UNCHANGED <<files, users, ghosts>>

(* Step 3b.                                                                *)
WriteMarker(d) ==
    /\ pc[d] = "mark"
    /\ marker' = TRUE
    /\ Goes(d, "bind")
    /\ UNCHANGED <<inode, pidFile, pidContent, socket, history, flag, users, ghosts>>

----------------------------------------------------------------------------
(* DaemonServer::start.  An error ends the server task, and the daemon     *)
(* shuts down in good order.                                               *)

(* cleanup_stale_socket: no process has the PID that daemon.pid holds, but *)
(* as a rule that is the PID of the process that asks.                     *)
IsStale == pidContent \notin {d \in Daemons : Alive(d)}

CleanupStaleSocket(d) ==
    /\ pc[d] = "bind"
    /\ socket = 0 \/ IsStale
    /\ socket' = 0
    /\ Goes(d, "listen")
    /\ UNCHANGED <<inode, pidFile, pidContent, marker, history, flag, users, ghosts>>

AnotherIsRunning(d) ==
    /\ pc[d] = "bind"
    /\ socket # 0 /\ ~IsStale
    /\ Goes(d, "down")
    /\ UNCHANGED <<inode, files, users, ghosts>>

Bind(d) ==
    /\ pc[d] = "listen"
    /\ Goes(d, IF socket = 0 THEN "serve" ELSE "down")
    /\ socket' = IF socket = 0 THEN d ELSE socket
    /\ UNCHANGED <<inode, pidFile, pidContent, marker, history, flag, users, ghosts>>

(* The accept loop ends; cleanup_socket removes what the path names.       *)
CleanupSocket(d) ==
    /\ pc[d] = "serve" /\ d \in cancelled
    /\ socket' = 0
    /\ Goes(d, "down")
    /\ UNCHANGED <<inode, pidFile, pidContent, marker, history, flag, users, ghosts>>

----------------------------------------------------------------------------
(* Shutting down: on a signal, or for `gw daemon stop', which removes      *)
(* daemon.pid as soon as it has been answered.                             *)
Signal(d) ==
    /\ "signal" \in Commands
    /\ pc[d] \in {"bind", "listen", "serve"} /\ d \notin cancelled
    /\ cancelled' = cancelled \cup {d}
    /\ UNCHANGED <<pc, inode, files, parents, stopping, deaths, ghosts>>

StopRequest ==
    /\ "stop" \in Commands /\ ~stopping
    /\ Reachable
    /\ cancelled' = cancelled \cup {socket}
    /\ stopping' = TRUE
    /\ UNCHANGED <<pc, inode, files, parents, deaths, ghosts>>

StopRemovesPidFile ==
    /\ stopping
    /\ stopping' = FALSE
    /\ Unlink
    /\ UNCHANGED <<pc, inode, marker, socket, history, flag>>
    /\ UNCHANGED <<cancelled, parents, deaths, uncounted>>

(* Mutant: the lock goes before the marker.                                *)
RemoveMarker_AfterUnlock(d) ==
    \/ /\ pc[d] = "down"
       /\ Goes(d, "unlock2")
       /\ UNCHANGED <<inode, files, users, ghosts>>
    \/ /\ pc[d] = "unlock2"
       /\ marker' = FALSE
       /\ Goes(d, "unlink")
       /\ UNCHANGED <<inode, pidFile, pidContent, socket, history, flag, users, ghosts>>

(* The monitors, the snapshots, the drain tasks and the queue come first.  *)
RemoveMarker(d) ==
    /\ pc[d] = "down"
    /\ marker' = FALSE
    /\ Goes(d, "unlock")
    /\ UNCHANGED <<inode, pidFile, pidContent, socket, history, flag, users, ghosts>>

Unlock(d) ==
    /\ pc[d] = "unlock"
    /\ Goes(d, "unlink")
    /\ UNCHANGED <<inode, files, users, ghosts>>

RemovePidFile(d) ==
    /\ pc[d] = "unlink"
    /\ Unlink
    /\ Exit(d)
    /\ UNCHANGED <<marker, socket, history, flag, users, uncounted>>

(* Those that have looked at the marker and do not have the lock yet.      *)
Looked == {d \in Daemons : pc[d] \in {"open", "lock"}}

(* A crash, SIGKILL, the machine going down, or an error that start_daemon *)
(* returns.                                                                *)
Dies(d) ==
    /\ Alive(d) /\ deaths < MaxDeaths
    /\ deaths' = deaths + 1
    /\ Exit(d)
    /\ uncounted' = IF pc[d] \in Marked /\ Looked = {} THEN uncounted \cup {d}
                    ELSE uncounted
    /\ UNCHANGED <<files, cancelled, parents, stopping, unlinked>>

----------------------------------------------------------------------------
LifeInit ==
    /\ pc = [d \in Daemons |-> "off"]
    /\ inode = [d \in Daemons |-> 0]
    /\ cancelled = {}
    /\ pidFile = 0
    /\ pidContent = 0
    /\ marker = FALSE /\ socket = 0
    /\ history = <<>> /\ flag = FALSE
    /\ parents = {} /\ stopping = FALSE /\ deaths = 0
    /\ uncounted = {} /\ unlinked = FALSE

Start(d) ==
    \/ Launch(d) \/ ParentWrites(d) \/ Probe(d) \/ Detect(d) \/ OpenPidFile(d)
    \/ LockPidFile(d) \/ AlreadyRunning(d) \/ WriteMarker(d)

Serve(d) ==
    CleanupStaleSocket(d) \/ AnotherIsRunning(d) \/ Bind(d) \/ CleanupSocket(d)

ShutDown(d) ==
    Signal(d) \/ RemoveMarker(d) \/ Unlock(d) \/ RemovePidFile(d)

LifeNext ==
    \/ \E d \in Daemons : Start(d) \/ Serve(d) \/ ShutDown(d) \/ Dies(d)
    \/ StopRequest \/ StopRemovesPidFile

LifeSpec == LifeInit /\ [][LifeNext]_lifeVars

----------------------------------------------------------------------------
(* Crash-loop detection misses no unclean exit: from the death of a daemon *)
(* that had written its marker until a later start counts it, the marker   *)
(* is there.  Several processes write and remove the one marker, which     *)
(* does not say whose it is: only the lock on daemon.pid keeps a daemon    *)
(* from removing the marker of another.  Excepted are deaths while another *)
(* start is between its look at the marker and the lock, and what follows  *)
(* the removal of daemon.pid under somebody who has it open.               *)
CrashesAreCounted == uncounted # {} => marker \/ unlinked

(* "The flock guarantees that only one daemon process can reach this       *)
(* codepath" (server.rs:131, SEC-006), whatever parents write to the file  *)
(* and however daemons die.  Refuted without the exception: `gw daemon     *)
(* stop' and a daemon that ends remove the file that others may hold.      *)
LockIsExclusive ==
    \A d, e \in Daemons :
        pc[d] \in Locked /\ pc[e] \in Locked => d = e \/ unlinked

(* "Another daemon is already running" is said of another daemon.  Refuted *)
(* after any unclean exit: the socket is left, and the PID is one's own.   *)
RefusedByAnother ==
    [][\A d \in Daemons : pc[d] = "bind" /\ pc'[d] = "down" =>
          \E e \in Daemons \ {d} : Alive(e)]_lifeVars
=============================================================================
