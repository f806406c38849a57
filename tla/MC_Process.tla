----------------------------- MODULE MC_Process -----------------------------
(* The server as a process, for TLC: signals, the event loop, the store,    *)
(* the pidfile and the process-wide state of pposix.  "unit" says which one *)
(* of Units a behaviour is about; the others stay as they began.            *)
EXTENDS Signals, EventLoop, DataManager, Instance, Posix

CONSTANTS c1, c2, Units

VARIABLE unit

PosixUnits == {"creds", "syslog", "rlimit", "umask"}

ProcessVars == <<sigVars, loopVars, storeVars, instVars, posixVars, unit>>

ProcessInit ==
    /\ unit \in Units
    /\ SigInit /\ LoopInit /\ StoreInit /\ InstInit /\ PosixInit
    /\ unit # "loop" => poll.backend = "epoll"
    /\ unit \notin PosixUnits => creds = RootCreds /\ life = "config"

(* The list belongs to the server alone; tables are stored by prosodyctl too. *)
StoreUnit ==
    \E p \in Procs :
        \/ unit = "table" /\ store(p)
        \/ unit = "list" /\ (list_append(p) \/ list_store(p))
        \/ unit \in {"table", "list"} /\ StoreStep(p)

PosixUnit ==
    \/ unit = "creds" /\ Credentials
    \/ unit = "syslog" /\ Syslog
    \/ unit = "rlimit" /\ Limiting
    \/ unit = "umask" /\ Masking

ProcessNext ==
    /\ UNCHANGED unit
    /\ \/ unit = "signals" /\ SigNext /\ UNCHANGED <<loopVars, storeVars, instVars, posixVars>>
       \/ unit = "loop" /\ LoopNext /\ UNCHANGED <<sigVars, storeVars, instVars, posixVars>>
       \/ StoreUnit /\ UNCHANGED <<sigVars, loopVars, instVars, posixVars>>
       \/ unit = "instance" /\ InstNext /\ UNCHANGED <<sigVars, loopVars, storeVars, posixVars>>
       \/ PosixUnit /\ UNCHANGED <<sigVars, loopVars, storeVars, instVars>>

ProcessSpec == ProcessInit /\ [][ProcessNext]_ProcessVars
ProcessFairSpec == ProcessSpec /\ SigFairness /\ LoopFairness

(* Connections are interchangeable. *)
ConnSymmetry == Permutations(Conns)

(* Numbers of the signals: less and more than the table holds. *)
Numbered == [s \in Sigs |-> IF s = "HUP" THEN 1 ELSE 15]

(* Values of the constants of Posix: the entries of /etc/passwd and         *)
(* /etc/group, options of the configuration, arguments of the calls.        *)
Accounts ==
    [root |-> [uid |-> 0, gid |-> 0, groups |-> {0}],
     toor |-> [uid |-> 0, gid |-> 0, groups |-> {0}],
     prosody |-> [uid |-> 2, gid |-> 3, groups |-> {3, 4}]]
GroupIds == [root |-> 0, prosody |-> 3, ssl |-> 4]
IdOptions ==
    [type : {"name"}, name : {"root", "toor", "prosody", "nobody"}]
    \cup [type : {"number"}, n : {-1, 0, 2}, text : BOOLEAN] \cup [type : {"other"}]
NoOption == [type |-> "nil"]
Numbers == {-1, -2, 0, 1, 3}
Masks == {<<0, 2, 7>>, <<0, 3, 7, 7>>, <<2, 9>>, <<>>}
=============================================================================
