-------------------------------- MODULE Posix --------------------------------
(***************************************************************************)
(* The process-wide state that util-src/pposix.c changes: credentials,     *)
(* syslog, resource limits and the file mode mask, with the code that uses *)
(* it: switch_user of util/startup.lua and plugins/mod_posix.lua.          *)
(* Every call is atomic: the process has one thread.  Tests cannot reach   *)
(* most of it, since it needs root and ends or changes the process.        *)
(***************************************************************************)
EXTENDS Integers, SequencesExt

CONSTANTS Passwd,       \* user name -> [uid, gid, groups]
          GroupFile,    \* group name -> gid
          IdArgs,       \* values of the options setuid and setgid
          NoId,         \* the option is not set
          LimitArgs,    \* numbers given to setrlimit
          RlimWord,     \* number of values of an rlim_t
          UmaskTexts,   \* digits given to umask
          MaxKept       \* bound: masks a caller has to restore

ASSUME PosixAssumption ==
    /\ "root" \in DOMAIN Passwd /\ Passwd["root"].uid = 0
    /\ Passwd \in [DOMAIN Passwd -> [uid : Nat, gid : Nat, groups : SUBSET Nat]]
    /\ GroupFile \in [DOMAIN GroupFile -> Nat]
    /\ \A arg \in IdArgs : \/ arg.type \in {"name", "other"}
                           \/ arg.type = "number" /\ arg.n \in Int /\ arg.text \in BOOLEAN
    /\ RlimWord \in Nat /\ RlimWord > 1 /\ MaxKept \in Nat
    /\ LimitArgs \subseteq -RlimWord .. RlimWord - 1     \* what an rlim_t can be cast from
    /\ UmaskTexts \subseteq Seq(Nat)

VARIABLES creds,        \* [uid, gid, groups] of the process
          life,         \* of a server: config, loaded, up, stopping; of prosodyctl:
                        \* ctl, switched, warned
          options,      \* setuid, setgid, run_as_root, or the desired user and group
          log,          \* libc's syslog state, and syslog_ident of pposix.c
          limit,        \* soft and hard limit of a resource
          asked,        \* the last call of setrlimit and what it found
          mask          \* the file mode mask, the texts kept to restore it, and
                        \* what it was then

posixVars == <<creds, life, options, log, limit, asked, mask>>

RootCreds == [uid |-> 0, gid |-> 0, groups |-> {0}]
-----------------------------------------------------------------------------
(* Credentials.  A call gives the credentials after it and what it returns; *)
(* "unknown-error" stands for what the system may answer at any time.       *)
Did(c) == [ok |-> TRUE, creds |-> c]
Failed(c) == [ok |-> FALSE, creds |-> c]

(* A numeric string is a number; what is neither number nor string counts   *)
(* as 0 (lua_tonumber).                                                     *)
IdOf(arg, names) ==
    CASE arg.type = "name"   -> IF arg.name \in DOMAIN names THEN names[arg.name] ELSE -1
      [] arg.type = "number" -> arg.n
      [] OTHER               -> 0

Uids == [u \in DOMAIN Passwd |-> Passwd[u].uid]

lc_setuid(c, arg, fault) ==
    LET uid == IdOf(arg, Uids)
    IN  IF fault \/ uid < 0 \/ (c.uid # 0 /\ c.uid # uid)
        THEN Failed(c) ELSE Did([c EXCEPT !.uid = uid])

lc_setgid(c, arg, fault) ==
    LET gid == IdOf(arg, GroupFile)
    IN  IF fault \/ gid < 0 \/ (c.uid # 0 /\ c.gid # gid)
        THEN Failed(c) ELSE Did([c EXCEPT !.gid = gid])

(* The group of the user's own entry is added, not the one set before. *)
lc_initgroups(c, user, fault) ==
    IF fault \/ user \notin DOMAIN Passwd \/ c.uid # 0
    THEN Failed(c)
    ELSE Did([c EXCEPT !.groups = Passwd[user].groups \cup {Passwd[user].gid}])

(* startup.switch_user, of prosodyctl: on failure it only prints a warning. *)
Mut_switch_user(user, group, faulty) ==
    LET uid == lc_setuid(creds, [type |-> "name", name |-> user], "setuid" \in faulty)
        gid == lc_setgid(uid.creds, [type |-> "name", name |-> group], "setgid" \in faulty)
    IN  /\ life = "ctl" /\ creds.uid = 0
        /\ options' = [user |-> user, group |-> group]
        /\ creds' = gid.creds /\ life' = IF uid.ok THEN "switched" ELSE "warned"
        /\ UNCHANGED <<log, limit, asked, mask>>
switch_user(user, group, faulty) ==
    LET gid == lc_setgid(creds, [type |-> "name", name |-> group], "setgid" \in faulty)
        grp == IF gid.ok THEN lc_initgroups(gid.creds, user, "initgroups" \in faulty) ELSE gid
        uid == IF grp.ok THEN lc_setuid(grp.creds, [type |-> "name", name |-> user], "setuid" \in faulty)
               ELSE grp
    IN  /\ life = "ctl" /\ creds.uid = 0
        /\ options' = [user |-> user, group |-> group]
        /\ creds' = uid.creds /\ life' = IF uid.ok THEN "switched" ELSE "warned"
        /\ UNCHANGED <<log, limit, asked, mask>>

(* mod_posix is loaded: a server that would stay root refuses to go on. *)
StaysRoot(suid) ==
    \/ suid = NoId
    \/ suid.type = "number" /\ suid.n = 0 /\ ~suid.text
    \/ suid.type = "name" /\ suid.name = "root"

load_mod_posix(suid, sgid, as_root) ==
    /\ life = "config"
    /\ options' = [setuid |-> suid, setgid |-> sgid, run_as_root |-> as_root]
    /\ life' = IF StaysRoot(suid) /\ creds.uid = 0 /\ ~as_root THEN "stopping" ELSE "loaded"
    /\ UNCHANGED <<creds, log, limit, asked, mask>>

(* The hook on server-started, when the ports are open. *)
server_started(faulty) ==
    LET gid == IF options.setgid = NoId THEN Did(creds)
               ELSE lc_setgid(creds, options.setgid, "setgid" \in faulty)
        uid == IF options.setuid = NoId THEN Did(gid.creds)
               ELSE lc_setuid(gid.creds, options.setuid, "setuid" \in faulty)
    IN  /\ life = "loaded"
        /\ creds' = uid.creds /\ life' = IF gid.ok /\ uid.ok THEN "up" ELSE "stopping"
        /\ UNCHANGED <<options, log, limit, asked, mask>>
-----------------------------------------------------------------------------
(* syslog.  The priorities of level_constants: "error" is LOG_CRIT.         *)
(* facility_strings has no "news" while facility_constants has, so that the *)
(* names after "mail" stand at the index of another facility's constant.    *)
LevelPriority == <<7, 6, 5, 4, 2>>       \* debug, info, notice, warn, error
facility_strings == <<"daemon", "mail", "syslog", "user", "uucp">>
facility_constants == <<"daemon", "mail", "news", "syslog", "user", "uucp">>

(* libc keeps the pointer it is given: "ptr" says whether there is still a  *)
(* string behind it.  closelog forgets it, and the string is freed when     *)
(* syslog_ident points to one.                                              *)
openlog(l, i) ==
    [l EXCEPT !.ident = TRUE, !.ptr = "live",
              !.named = facility_strings[i], !.facility = facility_constants[i]]
closelog(l) == [l EXCEPT !.ptr = "null"]
FreeIdent(l) ==
    IF l.ident THEN [l EXCEPT !.ident = FALSE, !.ptr = IF @ = "live" THEN "freed" ELSE @] ELSE l

lc_syslog_open(i) ==
    /\ log' = openlog(FreeIdent(log), i)
    /\ UNCHANGED <<creds, life, options, limit, asked, mask>>

lc_syslog_close ==
    /\ log' = FreeIdent(closelog(log))
    /\ UNCHANGED <<creds, life, options, limit, asked, mask>>

lc_syslog_setmask(i) ==
    /\ log' = [log EXCEPT !.min = i, !.bits = {LevelPriority[j] : j \in i..5}]
    /\ UNCHANGED <<creds, life, options, limit, asked, mask>>

(* Whether a message of the i-th level gets through, and with what. *)
lc_syslog_log(i) == LevelPriority[i] \in log.bits
-----------------------------------------------------------------------------
(* Resource limits.  A negative number becomes a large rlim_t, and -1 is    *)
(* RLIM_INFINITY.                                                           *)
RLIM_INFINITY == RlimWord - 1

arg_to_rlimit(arg, current) ==
    CASE arg.type = "unlimited" -> RLIM_INFINITY
      [] arg.type = "number"    -> arg.n % RlimWord
      [] OTHER                  -> current

(* The system refuses a soft limit above the hard one, and lets only root   *)
(* raise the hard one.                                                      *)
lc_setrlimit(soft, hard) ==
    LET lim == [soft |-> arg_to_rlimit(soft, limit.soft), hard |-> arg_to_rlimit(hard, limit.hard)]
        ok == lim.soft <= lim.hard /\ (lim.hard <= limit.hard \/ creds.uid = 0)
    IN  /\ limit' = IF ok THEN lim ELSE limit
        /\ asked' = [soft |-> soft, hard |-> hard, was |-> limit, ok |-> ok]
        /\ UNCHANGED <<creds, life, options, log, mask>>

lc_getrlimit ==
    LET Shown(n) == IF n = RLIM_INFINITY THEN [type |-> "unlimited"] ELSE [type |-> "number", n |-> n]
    IN  [soft |-> Shown(limit.soft), hard |-> Shown(limit.hard)]
-----------------------------------------------------------------------------
(* umask takes and returns text: strtoul reads octal digits up to the first *)
(* character that is none, and "%03o" writes at least three.                *)
strtoul8(text) ==
    LET ends == {i \in 1..Len(text) : text[i] > 7}
        n == IF ends = {} THEN Len(text) ELSE Min(ends) - 1
        value[i \in 0..n] == IF i = 0 THEN 0 ELSE 8 * value[i - 1] + text[i]
    IN  value[n] % 512

Mut_format03o(n) == IF n < 8 THEN <<n>> ELSE IF n < 64 THEN <<n \div 8, n % 8>>
                    ELSE <<n \div 8 % 8, n % 8>>
format03o(n) == <<n \div 64, n \div 8 % 8, n % 8>>

(* A caller keeps what umask returns and gives it back when it is done.     *)
lc_umask(text) ==
    /\ Len(mask.kept) < MaxKept
    /\ mask' = [now |-> strtoul8(text), kept |-> Append(mask.kept, format03o(mask.now)),
                was |-> Append(mask.was, mask.now)]
    /\ UNCHANGED <<creds, life, options, log, limit, asked>>

RestoreUmask ==
    /\ mask.kept # <<>>
    /\ mask' = [now |-> strtoul8(Last(mask.kept)), kept |-> Front(mask.kept), was |-> Front(mask.was)]
    /\ UNCHANGED <<creds, life, options, log, limit, asked>>
-----------------------------------------------------------------------------
Calls == {"setgid", "initgroups", "setuid"}
LimitArg == [type : {"unlimited", "none"}] \cup [type : {"number"}, n : LimitArgs]

PosixInit ==
    /\ creds \in {RootCreds} \cup {[uid |-> Passwd[u].uid, gid |-> Passwd[u].gid,
                                    groups |-> Passwd[u].groups] : u \in DOMAIN Passwd}
    /\ life \in {"config", "ctl"} /\ options = {}
    /\ log = [ident |-> FALSE, ptr |-> "null", named |-> "user", facility |-> "user",
              min |-> 1, bits |-> 0..7]
    /\ limit = [soft |-> 1, hard |-> RLIM_INFINITY]
    /\ asked = [soft |-> [type |-> "none"], hard |-> [type |-> "none"], was |-> limit, ok |-> TRUE]
    /\ mask = [now |-> 18, kept |-> <<>>, was |-> <<>>]

Credentials ==
    \/ \E user \in DOMAIN Passwd \cup {"nobody"}, group \in DOMAIN GroupFile \cup {"nobody"},
         faulty \in SUBSET Calls : switch_user(user, group, faulty)
    \/ \E suid, sgid \in IdArgs \cup {NoId}, as_root \in BOOLEAN : load_mod_posix(suid, sgid, as_root)
    \/ \E faulty \in SUBSET Calls : server_started(faulty)

Syslog ==
    \/ \E i \in DOMAIN facility_strings : lc_syslog_open(i)
    \/ lc_syslog_close
    \/ \E i \in DOMAIN LevelPriority : lc_syslog_setmask(i)

Limiting == \E soft, hard \in LimitArg : lc_setrlimit(soft, hard)

Masking == (\E text \in UmaskTexts : lc_umask(text)) \/ RestoreUmask

PosixNext == Credentials \/ Syslog \/ Limiting \/ Masking

PosixSpec == PosixInit /\ [][PosixNext]_posixVars
-----------------------------------------------------------------------------
(* prosodyctl that says it switched has left root behind altogether: user,  *)
(* group and supplementary groups are those of the desired user and group;  *)
(* one that could not is still root and only warned (startup.lua:382-430).  *)
SwitchedWhollyOrNot ==
    /\ life = "switched" =>
        creds = [uid |-> Passwd[options.user].uid, gid |-> GroupFile[options.group],
                 groups |-> Passwd[options.user].groups \cup {Passwd[options.user].gid}]
    /\ life = "warned" => creds.uid = 0

(* A server that is up does not run as root unless it may, except with a    *)
(* setuid option that the check at load time does not see through: "0" as   *)
(* text, a name other than root with uid 0, or a value that is no name and  *)
(* no number (mod_posix.lua:35-68, pposix.c:304).                           *)
NotRootByAccident ==
    life = "up" /\ creds.uid = 0 /\ ~options.run_as_root =>
        /\ options.setuid # NoId
        /\ \/ options.setuid.type = "other"
           \/ options.setuid.type = "number" /\ options.setuid.text
           \/ options.setuid.type = "name" /\ options.setuid.name # "root"

(* No process keeps root's rights by a call that failed or an option that   *)
(* was misread, but for the exceptions above.                               *)
RootDropped == SwitchedWhollyOrNot /\ NotRootByAccident

(* Whatever was opened, closed and masked before, libc never holds a        *)
(* pointer to a freed ident, messages go to the facility that was named     *)
(* (except for the three names whose index is off by one), and exactly      *)
(* those of the chosen level or above get through (pposix.c:189-266).       *)
SyslogAsAsked ==
    /\ log.ptr # "freed" /\ (log.ident <=> log.ptr = "live")
    /\ log.facility = log.named \/ log.named \in {"syslog", "user", "uucp"}
    /\ \A i \in DOMAIN LevelPriority : lc_syslog_log(i) <=> i >= log.min

(* After setrlimit succeeds getrlimit shows what was asked for: what it was *)
(* for an argument left out, the number, if it is not negative, or          *)
(* "unlimited"; after it fails, what it was (pposix.c:553-656).  A negative *)
(* number becomes a very large one, where the comment at line 498 promises  *)
(* the current limit: nothing is said of it here.                           *)
RlimitAsAsked ==
    LET Value(shown) == IF shown.type = "unlimited" THEN RLIM_INFINITY ELSE shown.n
        Fits(shown, arg, was) ==
            IF ~asked.ok \/ arg.type = "none" THEN Value(shown) = was
            ELSE IF arg.type = "unlimited" THEN shown = [type |-> "unlimited"]
            ELSE arg.n >= 0 => Value(shown) = arg.n
    IN  /\ Fits(lc_getrlimit.soft, asked.soft, asked.was.soft)
        /\ Fits(lc_getrlimit.hard, asked.hard, asked.was.hard)

(* The text that umask returns restores the mask it stands for, however     *)
(* calls nest (pposix.c:467-476, prosodyctl:587-591, 645-667).              *)
UmaskRestored ==
    \A i \in DOMAIN mask.kept : strtoul8(mask.kept[i]) = mask.was[i]

(* Log, limits and mask of the process are what the callers asked for,      *)
(* after any sequence of calls (pposix.c:198-266, 467-656).                 *)
AsAsked == SyslogAsAsked /\ RlimitAsAsked /\ UmaskRestored
=============================================================================
