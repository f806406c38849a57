------------------------------ MODULE Instance ------------------------------
(***************************************************************************)
(* How a server process comes to be and is found again: daemonize of       *)
(* util-src/pposix.c, the pidfile of plugins/mod_posix.lua, and getpid of  *)
(* util/prosodyctl.lua.  Several starts of prosody may overlap, with each  *)
(* other and with an old instance that is stopping, and prosodyctl may     *)
(* look at the pidfile at any moment.                                      *)
(*                                                                         *)
(* Files have names and inodes: a lock belongs to a process and an inode,  *)
(* and is gone as soon as that process closes the file.                    *)
(***************************************************************************)
EXTENDS Naturals, FiniteSetsExt

CONSTANTS Starts,     \* starts of prosody
          Ctl,        \* prosodyctl
          Nobody,
          InstFeatures \* "kill", "fail": what may happen to processes

ASSUME InstAssumption ==
    /\ IsFiniteSet(Starts) /\ Ctl \notin Starts /\ Nobody \notin Starts \cup {Ctl}
    /\ (Starts \cup {Nobody}) \cap {"-", "down"} = {}     \* what else prosodyctl may say

VARIABLES role,       \* start -> process of it -> what the process does
          at,         \* start -> where the process that serves is
          handle,     \* process -> inode it has open, 0 if none
          mode,       \* start -> mode chosen for the first open
          name,       \* inode under the name of the pidfile, 0 if none
          text,       \* inode -> the pid in it, Nobody if empty
          lock,       \* inode -> process that holds the lock
          ctl,        \* where prosodyctl is, and its last answer
          mishap      \* what happened that breaks the promises

instVars == <<role, at, handle, mode, name, text, lock, ctl, mishap>>
pidVars == <<handle, mode, name, text, lock>>

Users == Starts \cup {Ctl}
Files == 1..Cardinality(Starts) + 1
Step(s, from, to) == at[s] = from /\ at' = [at EXCEPT ![s] = to]
FreshFile == Min(Files \ ({name} \cup {handle[u] : u \in Users}))
-----------------------------------------------------------------------------
(* lc_daemonize.  The caller goes on as "parent", "child" or "daemon".      *)
Fork(s) ==
    /\ role[s].parent = "starting"
    /\ \/ /\ role' = [role EXCEPT ![s].parent = "done", ![s].child = "starting"]
          /\ UNCHANGED at
       \/ /\ "fail" \in InstFeatures      \* getppid() == 1, or fork-failed
          /\ role' = [role EXCEPT ![s].parent = "serving"] /\ Step(s, "new", "bare")
    /\ UNCHANGED <<pidVars, ctl, mishap>>

(* The parent was told the child's pid, and exits. *)
ParentExits(s) ==
    /\ role[s].parent = "done"
    /\ role' = [role EXCEPT ![s].parent = "exited"]
    /\ UNCHANGED <<pidVars, at, ctl, mishap>>

(* A failed second fork makes the child exit too. *)
Mut_SetsidAndFork(s) ==
    /\ role[s].child = "starting" /\ Step(s, "new", "stat")
    /\ role' = [role EXCEPT ![s].child = "serving", ![s].daemon = "serving"]
    /\ UNCHANGED <<pidVars, ctl, mishap>>
SetsidAndFork(s) ==
    /\ role[s].child = "starting"
    /\ \/ /\ role' = [role EXCEPT ![s].child = "exited", ![s].daemon = "serving"]
          /\ Step(s, "new", "stat") /\ UNCHANGED mishap
       \/ /\ "fail" \in InstFeatures
          /\ role' = [role EXCEPT ![s].child = "serving"]        \* setsid-failed
          /\ Step(s, "new", "bare") /\ UNCHANGED mishap
       \/ /\ "fail" \in InstFeatures
          /\ role' = [role EXCEPT ![s].child = "exited"]         \* fork() < 0
          /\ Step(s, "new", "gone") /\ mishap' = mishap \cup {"fork"}
    /\ UNCHANGED <<pidVars, ctl>>

(* Not going to daemonize. *)
Foreground(s) ==
    /\ role[s].parent = "starting" /\ Step(s, "new", "stat")
    /\ role' = [role EXCEPT ![s].parent = "serving"]
    /\ UNCHANGED <<pidVars, ctl, mishap>>
-----------------------------------------------------------------------------
(* write_pidfile *)
Stat(s) ==
    /\ Step(s, "stat", "open")
    /\ mode' = [mode EXCEPT ![s] = IF name # 0 THEN "r+" ELSE "w+"]
    /\ UNCHANGED <<role, handle, name, text, lock, ctl, mishap>>

(* io.open(pidfile, "w+") creates the file or empties it, whoever locked it. *)
OpenW(s) ==
    LET f == IF name = 0 THEN FreshFile ELSE name
    IN  /\ name' = f /\ handle' = [handle EXCEPT ![s] = f]
        /\ text' = [text EXCEPT ![f] = Nobody]
        /\ mishap' = IF name # 0 /\ lock[f] \in Starts THEN mishap \cup {"emptied"} ELSE mishap

Open(s) ==
    /\ \/ /\ mode[s] = "w+" /\ OpenW(s) /\ Step(s, "open", "lock")
       \/ /\ mode[s] = "r+" /\ name # 0 /\ handle' = [handle EXCEPT ![s] = name]
          /\ Step(s, "open", "lock") /\ UNCHANGED <<name, text, mishap>>
       \/ /\ mode[s] = "r+" /\ name = 0 /\ Step(s, "open", "quit")
          /\ UNCHANGED <<handle, name, text, mishap>>
    /\ UNCHANGED <<role, mode, lock, ctl>>

(* The first lock tells whether another instance runs. *)
Lock(s) ==
    LET f == handle[s] IN
    /\ at[s] = "lock"
    /\ \/ /\ lock[f] = Nobody /\ Step(s, "lock", "close")
          /\ lock' = [lock EXCEPT ![f] = s] /\ UNCHANGED <<handle, mishap>>
       \/ /\ lock[f] # Nobody /\ Step(s, "lock", "quit")
          /\ handle' = [handle EXCEPT ![s] = 0] /\ UNCHANGED lock
          /\ mishap' = IF lock[f] = Ctl THEN mishap \cup {"ctl"} ELSE mishap
    /\ UNCHANGED <<role, mode, name, text, ctl>>

(* Closing the file gives the lock up until it is taken again. *)
Mut_Reopen(s) ==
    /\ at[s] \in {"close", "reopen"} /\ at' = [at EXCEPT ![s] = "up"]
    /\ lock' = [f \in Files |-> IF lock[f] = s THEN Nobody ELSE lock[f]]
    /\ UNCHANGED <<role, handle, mode, name, text, ctl, mishap>>
Reopen(s) ==
    /\ \/ /\ Step(s, "close", "reopen")
          /\ lock' = [f \in Files |-> IF lock[f] = s THEN Nobody ELSE lock[f]]
          /\ handle' = [handle EXCEPT ![s] = 0] /\ UNCHANGED <<name, text, mishap>>
       \/ Step(s, "reopen", "relock") /\ OpenW(s) /\ UNCHANGED lock
    /\ UNCHANGED <<role, mode, ctl>>

(* Without the second lock no pid is written, and the server runs anyway. *)
Relock(s) ==
    LET f == handle[s] IN
    /\ Step(s, "relock", "up")
    /\ \/ /\ lock[f] = Nobody
          /\ lock' = [lock EXCEPT ![f] = s] /\ text' = [text EXCEPT ![f] = s]
          /\ UNCHANGED mishap
       \/ /\ lock[f] # Nobody
          /\ mishap' = mishap \cup {IF lock[f] = Ctl THEN "ctl" ELSE "gap"}
          /\ UNCHANGED <<lock, text>>
    /\ UNCHANGED <<role, handle, mode, name, ctl>>

(* remove_pidfile on server-stopped: close, then remove whatever has the    *)
(* name now.                                                                *)
RemovePidfile(s) ==
    /\ \/ /\ Step(s, "up", "removing")
          /\ lock' = [f \in Files |-> IF lock[f] = s THEN Nobody ELSE lock[f]]
          /\ handle' = [handle EXCEPT ![s] = 0] /\ UNCHANGED <<name, role, mishap>>
       \/ /\ Step(s, "removing", "gone")
          /\ name' = 0 /\ UNCHANGED <<lock, handle>>
          /\ role' = [role EXCEPT ![s] = [p \in DOMAIN @ |-> "exited"]]
          /\ mishap' = IF name # 0 /\ \E u \in Starts \ {s} : handle[u] = name
                       THEN mishap \cup {"unlink"} ELSE mishap
    /\ UNCHANGED <<mode, text, ctl>>

(* An instance that stops without a pidfile of its own, or is killed. *)
Exits(s) ==
    /\ \/ Step(s, "quit", "gone") \/ Step(s, "bare", "gone")
       \/ "kill" \in InstFeatures /\ Step(s, "up", "gone")
    /\ role' = [role EXCEPT ![s] = [p \in DOMAIN @ |-> "exited"]]
    /\ lock' = [f \in Files |-> IF lock[f] = s THEN Nobody ELSE lock[f]]
    /\ handle' = [handle EXCEPT ![s] = 0]
    /\ UNCHANGED <<mode, name, text, ctl, mishap>>
-----------------------------------------------------------------------------
(* getpid and isrunning of prosodyctl: whoever has the lock is running.     *)
(* "up" keeps who was up from when it opened the file until it looked.      *)
Up == {s \in Starts : at[s] = "up"}
CtlSays(pid) == ctl' = [at |-> "close", says |-> pid, up |-> ctl.up \cap Up]

GetPid ==
    /\ \/ /\ ctl.at = "idle" /\ name # 0
          /\ handle' = [handle EXCEPT ![Ctl] = name]
          /\ ctl' = [at |-> "lock", says |-> "-", up |-> Up] /\ UNCHANGED lock
       \/ /\ ctl.at = "idle" /\ name = 0            \* pidfile-read-failed
          /\ ctl' = [at |-> "idle", says |-> "down", up |-> Up]
          /\ UNCHANGED <<handle, lock>>
       \/ /\ ctl.at = "lock" /\ lock[handle[Ctl]] = Nobody /\ CtlSays("down")
          /\ lock' = [lock EXCEPT ![handle[Ctl]] = Ctl] /\ UNCHANGED handle
       \/ /\ ctl.at = "lock" /\ lock[handle[Ctl]] # Nobody
          /\ CtlSays(text[handle[Ctl]]) /\ UNCHANGED <<handle, lock>>
       \/ /\ ctl.at = "close"
          /\ lock' = [f \in Files |-> IF lock[f] = Ctl THEN Nobody ELSE lock[f]]
          /\ handle' = [handle EXCEPT ![Ctl] = 0] /\ ctl' = [ctl EXCEPT !.at = "idle"]
    /\ UNCHANGED <<role, at, mode, name, text, mishap>>
-----------------------------------------------------------------------------
InstInit ==
    /\ role = [s \in Starts |-> [parent |-> "starting", child |-> "none", daemon |-> "none"]]
    /\ at = [s \in Starts |-> "new"] /\ handle = [u \in Users |-> 0]
    /\ mode = [s \in Starts |-> "w+"] /\ name = 0
    /\ text = [f \in Files |-> Nobody] /\ lock = [f \in Files |-> Nobody]
    /\ ctl = [at |-> "idle", says |-> "-", up |-> {}] /\ mishap = {}

InstNext ==
    \/ \E s \in Starts :
        \/ Fork(s) \/ ParentExits(s) \/ SetsidAndFork(s) \/ Foreground(s)
        \/ Stat(s) \/ Open(s) \/ Lock(s) \/ Reopen(s) \/ Relock(s)
        \/ RemovePidfile(s) \/ Exits(s)
    \/ GetPid

InstSpec == InstInit /\ [][InstNext]_instVars
-----------------------------------------------------------------------------
(* Types; a lock belongs to a process that has the file open, and nobody    *)
(* writes a pid but its own (mod_posix.lua:73-109).                         *)
InstTypeOK ==
    /\ name \in {0} \cup Files /\ handle \in [Users -> {0} \cup Files]
    /\ lock \in [Files -> Users \cup {Nobody}] /\ text \in [Files -> Starts \cup {Nobody}]
    /\ mishap \subseteq {"fork", "ctl", "gap", "unlink", "emptied"}
    /\ \A f \in Files : lock[f] # Nobody => handle[lock[f]] = f

(* daemonize leaves exactly one process of a start to go on as the server,  *)
(* whichever step fails; only when the second fork fails there is none,     *)
(* although the parent has reported success (pposix.c:86-132).              *)
OneContinues ==
    \A s \in Starts :
        LET alive == {p \in {"parent", "child", "daemon"} : role[s][p] \in {"starting", "serving"}}
        IN  IF at[s] = "gone" THEN alive = {} ELSE Cardinality(alive) = 1

(* Two instances never run on one pidfile, except after one of these: a     *)
(* second start got between the close and the second lock of the first, or  *)
(* prosodyctl held the lock then, or an instance that was stopping removed  *)
(* the file of its successor (mod_posix.lua:73-114).                        *)
Undisturbed == mishap \cap {"gap", "ctl", "unlink"} = {}

OneInstance ==
    Undisturbed => \A s, t \in Starts : at[s] = "up" /\ at[t] = "up" => s = t

(* Of each start one process goes on, and of all starts one server runs     *)
(* (pposix.c:86-132, mod_posix.lua:73-158).                                 *)
OneServer == InstTypeOK /\ OneContinues /\ OneInstance

(* With the same exceptions prosodyctl is right: it says "down" only if no  *)
(* instance was up all the while it looked, and never a pid other than that *)
(* of the instance that was; what a killed instance left in the file is     *)
(* only named while its successor is starting (prosodyctl.lua:182-224).     *)
CtlIsRight ==
    Undisturbed =>
        /\ ctl.says = "down" => ctl.up = {}
        /\ ctl.says \in Starts => ctl.up \subseteq {ctl.says}

(* A running instance can be found and stopped: the file under the          *)
(* pidfile's name is the one it locked, and holds its pid unless another    *)
(* start opened it for writing (mod_posix.lua:87, 101).                     *)
Findable ==
    Undisturbed =>
        \A s \in Starts : at[s] = "up" =>
            name # 0 /\ lock[name] = s /\ (text[name] = s \/ "emptied" \in mishap)

(* The server that runs is the one prosodyctl finds                         *)
(* (mod_posix.lua:73-114, prosodyctl.lua:181-230).                          *)
ServerFound == Findable /\ CtlIsRight
=============================================================================
