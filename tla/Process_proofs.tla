--------------------------- MODULE Process_proofs ---------------------------
(***************************************************************************)
(* Proofs about the process: its credentials, syslog and limits (Posix),   *)
(* and how it is started and found again (Instance).                       *)
(***************************************************************************)
EXTENDS Posix, Instance, SequenceTheorems, FiniteSetTheorems, WellFoundedInduction, TLAPS

Creds == [uid : Nat, gid : Nat, groups : SUBSET Nat]
NameArg(n) == [type |-> "name", name |-> n]

(* The promise itself, and what it rests on: a server that went on after    *)
(* mod_posix was loaded may stay root, or will not.                         *)
PosixInv ==
    /\ creds \in Creds
    /\ RootDropped
    /\ life \in {"config", "ctl", "loaded", "up", "stopping", "switched", "warned"}
    /\ life = "loaded" =>
          /\ options.setuid \in IdArgs \cup {NoId}
          /\ options.setgid \in IdArgs \cup {NoId}
          /\ StaysRoot(options.setuid) /\ creds.uid = 0 => options.run_as_root

(* What an argument stands for is a number. *)
LEMMA IdIsNumber ==
    ASSUME NEW arg, arg \in IdArgs \/ \E n : arg = NameArg(n)
    PROVE  IdOf(arg, GroupFile) \in Int /\ IdOf(arg, Uids) \in Int
  <1>1. arg.type = "number" => arg.n \in Int
    BY PosixAssumption DEF NameArg
  <1>2. \A n \in DOMAIN GroupFile : GroupFile[n] \in Int
    BY PosixAssumption
  <1>3. \A n \in DOMAIN Uids : Uids[n] \in Int
    BY PosixAssumption DEF Uids
  <1> QED BY <1>1, <1>2, <1>3 DEF IdOf

(* setgid leaves the user and the supplementary groups alone. *)
LEMMA SetgidCall ==
    ASSUME NEW c \in Creds, NEW call, NEW faulty,
           NEW arg, arg \in IdArgs \/ \E n : arg = NameArg(n), NEW d, d = lc_setgid(c, arg, call \in faulty)
    PROVE  /\ d.ok \in BOOLEAN /\ d.creds \in Creds /\ d.creds.uid = c.uid
           /\ d.creds.groups = c.groups
           /\ d.ok => d.creds.gid = IdOf(arg, GroupFile)
  <1>1. IdOf(arg, GroupFile) \in Int
    BY IdIsNumber
  <1> QED BY <1>1 DEF lc_setgid, Did, Failed, Creds

(* initgroups changes the supplementary groups to those of the user. *)
LEMMA InitgroupsCall ==
    ASSUME NEW c \in Creds, NEW call, NEW faulty, NEW user, NEW d, d = lc_initgroups(c, user, call \in faulty)
    PROVE  /\ d.ok \in BOOLEAN /\ d.creds \in Creds /\ d.creds.uid = c.uid /\ d.creds.gid = c.gid
           /\ d.ok => /\ user \in DOMAIN Passwd
                      /\ d.creds.groups = Passwd[user].groups \cup {Passwd[user].gid}
  <1>1. user \in DOMAIN Passwd => Passwd[user] \in Creds
    BY PosixAssumption DEF Creds
  <1> QED BY <1>1 DEF lc_initgroups, Did, Failed, Creds

(* setuid changes the user alone, and only root gets to be another. *)
LEMMA SetuidCall ==
    ASSUME NEW c \in Creds, NEW call, NEW faulty,
           NEW arg, arg \in IdArgs \/ \E n : arg = NameArg(n), NEW d, d = lc_setuid(c, arg, call \in faulty)
    PROVE  /\ d.ok \in BOOLEAN /\ d.creds \in Creds
           /\ ~d.ok => d.creds = c
           /\ d.creds.gid = c.gid /\ d.creds.groups = c.groups
           /\ d.ok => d.creds.uid = IdOf(arg, Uids)
           /\ d.ok /\ c.uid # 0 => d.creds.uid # 0
  <1>1. IdOf(arg, Uids) \in Int
    BY IdIsNumber
  <1> QED BY <1>1 DEF lc_setuid, Did, Failed, Creds

(* prosodyctl: three calls, the later ones only after the earlier worked. *)
LEMMA SwitchKeeps ==
    ASSUME PosixInv, NEW user, NEW group, NEW faulty, switch_user(user, group, faulty)
    PROVE  PosixInv'
  <1> DEFINE gid == lc_setgid(creds, NameArg(group), "setgid" \in faulty)
             grp == IF gid.ok THEN lc_initgroups(gid.creds, user, "initgroups" \in faulty) ELSE gid
             uid == IF grp.ok THEN lc_setuid(grp.creds, NameArg(user), "setuid" \in faulty) ELSE grp
  <1>1. /\ creds.uid = 0 /\ creds \in Creds /\ options' = [user |-> user, group |-> group]
        /\ creds' = uid.creds /\ life' = IF uid.ok THEN "switched" ELSE "warned"
    BY DEF switch_user, PosixInv, NameArg
  <1>2. /\ gid.ok \in BOOLEAN /\ gid.creds \in Creds /\ gid.creds.uid = 0
        /\ gid.ok => gid.creds.gid = IdOf(NameArg(group), GroupFile)
    BY <1>1, SetgidCall
  <1> HIDE DEF gid
  <1>3. /\ grp.ok \in BOOLEAN /\ grp.creds \in Creds /\ grp.creds.uid = 0
        /\ grp.ok => /\ gid.ok /\ grp.creds.gid = gid.creds.gid /\ user \in DOMAIN Passwd
                     /\ grp.creds.groups = Passwd[user].groups \cup {Passwd[user].gid}
    <2>1. CASE gid.ok
      <3>1. grp = lc_initgroups(gid.creds, user, "initgroups" \in faulty)
        BY <2>1
      <3> HIDE DEF grp
      <3> QED BY <2>1, <3>1, <1>2, InitgroupsCall
    <2>2. CASE ~gid.ok
      BY <2>2, <1>2
    <2> QED BY <2>1, <2>2
  <1> HIDE DEF grp
  <1>4. /\ uid.ok \in BOOLEAN /\ uid.creds \in Creds /\ (~uid.ok => uid.creds.uid = 0)
        /\ uid.ok => /\ grp.ok /\ uid.creds.gid = grp.creds.gid /\ uid.creds.groups = grp.creds.groups
                     /\ uid.creds.uid = IdOf(NameArg(user), Uids)
    <2>1. CASE grp.ok
      <3>1. uid = lc_setuid(grp.creds, NameArg(user), "setuid" \in faulty)
        BY <2>1
      <3> HIDE DEF uid
      <3> QED BY <2>1, <3>1, <1>3, SetuidCall
    <2>2. CASE ~grp.ok
      BY <2>2, <1>3
    <2> QED BY <2>1, <2>2
  <1> HIDE DEF uid
  <1>5. ASSUME uid.ok
        PROVE  creds' = [uid |-> Passwd[user].uid, gid |-> GroupFile[group],
                         groups |-> Passwd[user].groups \cup {Passwd[user].gid}]
    <2>1. user \in DOMAIN Passwd /\ creds'.groups = Passwd[user].groups \cup {Passwd[user].gid}
      BY <1>1, <1>3, <1>4, <1>5
    <2>2. creds'.uid = Passwd[user].uid
      BY <1>1, <1>4, <1>5, <2>1 DEF IdOf, Uids, NameArg
    <2>3. creds'.gid = IdOf(NameArg(group), GroupFile)
      BY <1>1, <1>2, <1>3, <1>4, <1>5
    <2>4. group \in DOMAIN GroupFile
      <3>1. gid.ok
        BY <1>3, <1>4, <1>5
      <3> QED BY <3>1 DEF gid, lc_setgid, IdOf, NameArg, Failed, Did
    <2>5. creds'.gid = GroupFile[group]
      BY <2>3, <2>4 DEF IdOf, NameArg
    <2>6. creds' \in Creds
      BY <1>1, <1>4
    <2> QED BY <2>1, <2>2, <2>5, <2>6 DEF Creds
  <1>6. SwitchedWhollyOrNot' /\ life' \in {"switched", "warned"}
    BY <1>1, <1>4, <1>5 DEF SwitchedWhollyOrNot
  <1> QED BY <1>1, <1>4, <1>6 DEF PosixInv, RootDropped, NotRootByAccident

(* The server: what it was loaded with decides what it becomes. *)
LEMMA StartedKeeps ==
    ASSUME PosixInv, NEW faulty, server_started(faulty)
    PROVE  PosixInv'
  <1> DEFINE gid == IF options.setgid = NoId THEN Did(creds)
                    ELSE lc_setgid(creds, options.setgid, "setgid" \in faulty)
             uid == IF options.setuid = NoId THEN Did(gid.creds)
                    ELSE lc_setuid(gid.creds, options.setuid, "setuid" \in faulty)
             su == options.setuid
  <1>1. /\ life = "loaded" /\ creds' = uid.creds /\ options' = options
        /\ life' = IF gid.ok /\ uid.ok THEN "up" ELSE "stopping"
    BY DEF server_started
  <1>2. /\ creds \in Creds /\ options.setuid \in IdArgs \cup {NoId} /\ options.setgid \in IdArgs \cup {NoId}
        /\ StaysRoot(options.setuid) /\ creds.uid = 0 => options.run_as_root
    BY <1>1 DEF PosixInv
  <1>3. gid.creds \in Creds /\ gid.creds.uid = creds.uid
    <2>1. CASE options.setgid = NoId
      BY <2>1, <1>2 DEF Did
    <2>2. CASE options.setgid # NoId
      <3>1. gid = lc_setgid(creds, options.setgid, "setgid" \in faulty) /\ options.setgid \in IdArgs
        BY <2>2, <1>2
      <3> HIDE DEF gid
      <3> QED BY <3>1, <1>2, SetgidCall
    <2> QED BY <2>1, <2>2
  <1> HIDE DEF gid
  <1>4. /\ uid.creds \in Creds
        /\ su = NoId => uid.creds.uid = creds.uid
        /\ su # NoId /\ uid.ok => /\ uid.creds.uid = IdOf(su, Uids)
                                  /\ creds.uid # 0 => uid.creds.uid # 0
    <2>1. CASE su = NoId
      BY <2>1, <1>3 DEF Did
    <2>2. CASE su # NoId
      <3>1. uid = lc_setuid(gid.creds, su, "setuid" \in faulty) /\ su \in IdArgs
        BY <2>2, <1>2
      <3> HIDE DEF uid
      <3> QED BY <2>2, <3>1, <1>3, SetuidCall
    <2> QED BY <2>1, <2>2
  <1> HIDE DEF uid
  <1>5. ASSUME life' = "up", creds'.uid = 0, ~options.run_as_root
        PROVE  /\ su # NoId
               /\ \/ su.type = "other"
                  \/ su.type = "number" /\ su.text
                  \/ su.type = "name" /\ su.name # "root"
    <2>1. uid.ok /\ uid.creds.uid = 0
      BY <1>1, <1>5
    <2>2. creds.uid = 0
      BY <1>4, <2>1
    <2>3. ~StaysRoot(su)
      BY <1>2, <1>5, <2>2
    <2>4. su # NoId /\ su \in IdArgs
      BY <2>3, <1>2 DEF StaysRoot
    <2>5. IdOf(su, Uids) = 0
      BY <1>4, <2>1, <2>4
    <2> HIDE DEF su
    <2>6. \/ su.type \in {"name", "other"}
          \/ su.type = "number" /\ su.n \in Int /\ su.text \in BOOLEAN
      BY <2>4, PosixAssumption
    <2> QED BY <2>3, <2>4, <2>5, <2>6 DEF StaysRoot, IdOf
  <1>6. NotRootByAccident'
    BY <1>1, <1>5 DEF NotRootByAccident
  <1> QED BY <1>1, <1>2, <1>4, <1>6 DEF PosixInv, RootDropped, SwitchedWhollyOrNot

(* mod_posix is loaded: it stops the server that would stay root. *)
LEMMA LoadKeeps ==
    ASSUME PosixInv, NEW suid \in IdArgs \cup {NoId}, NEW sgid \in IdArgs \cup {NoId},
           NEW as_root \in BOOLEAN, load_mod_posix(suid, sgid, as_root)
    PROVE  PosixInv'
  <1>1. /\ options' = [setuid |-> suid, setgid |-> sgid, run_as_root |-> as_root]
        /\ life' = IF StaysRoot(suid) /\ creds.uid = 0 /\ ~as_root THEN "stopping" ELSE "loaded"
        /\ creds' = creds /\ creds \in Creds
    BY DEF load_mod_posix, PosixInv
  <1>2. options'.setuid = suid /\ options'.setgid = sgid /\ options'.run_as_root = as_root
    BY <1>1
  <1>3. life' \in {"stopping", "loaded"} /\ (life' = "loaded" /\ StaysRoot(suid) /\ creds.uid = 0 => as_root)
    BY <1>1
  <1>4. StaysRoot(options.setuid)' = StaysRoot(suid)
    BY <1>2 DEF StaysRoot
  <1> QED BY <1>1, <1>2, <1>3, <1>4 DEF PosixInv, RootDropped, NotRootByAccident, SwitchedWhollyOrNot

(* Every step keeps it: the others touch neither credentials nor options. *)
LEMMA PosixStep ==
    ASSUME PosixInv, [PosixNext]_posixVars
    PROVE  PosixInv'
  <1>1. ASSUME UNCHANGED <<creds, life, options>>
        PROVE  PosixInv'
    BY <1>1 DEF PosixInv, RootDropped, NotRootByAccident, SwitchedWhollyOrNot, StaysRoot
  <1>2. CASE Credentials
    BY <1>2, SwitchKeeps, StartedKeeps, LoadKeeps DEF Credentials
  <1>3. CASE Syslog
    BY <1>1, <1>3 DEF Syslog, lc_syslog_open, lc_syslog_close, lc_syslog_setmask
  <1>4. CASE Limiting
    BY <1>1, <1>4 DEF Limiting, lc_setrlimit
  <1>5. CASE Masking
    BY <1>1, <1>5 DEF Masking, lc_umask, RestoreUmask
  <1>6. CASE UNCHANGED posixVars
    BY <1>1, <1>6 DEF posixVars
  <1> QED BY <1>2, <1>3, <1>4, <1>5, <1>6 DEF PosixNext

(* No process keeps root's rights by a call that failed or an option that   *)
(* was misread: prosodyctl that says it switched has the user, the group    *)
(* and the supplementary groups it was asked for, and a server that is up   *)
(* as root either may be or has a setuid option the check at load time      *)
(* cannot see through (startup.lua:382-430, mod_posix.lua:35-68).           *)
THEOREM RootDroppedHolds == PosixSpec => []RootDropped
  <1>1. PosixInit => PosixInv
    BY PosixAssumption DEF PosixInit, PosixInv, Creds, RootCreds, RootDropped, NotRootByAccident,
                           SwitchedWhollyOrNot
  <1>2. PosixInv /\ [PosixNext]_posixVars => PosixInv'
    BY PosixStep
  <1>3. PosixInv => RootDropped
    BY DEF PosixInv
  <1> QED BY <1>1, <1>2, <1>3, PTL DEF PosixSpec
-----------------------------------------------------------------------------
(* Syslog and limits.  The level is one of the five, and the limits and the *)
(* arguments of the last call are numbers of their types.                   *)
LogInv ==
    /\ log = [ident |-> log.ident, ptr |-> log.ptr, named |-> log.named, facility |-> log.facility,
              min |-> log.min, bits |-> log.bits]
    /\ log.ident \in BOOLEAN /\ log.min \in 1..5 /\ SyslogAsAsked

Rlims == 0..RLIM_INFINITY
LimitPair == [soft : Rlims, hard : Rlims]

LimitInv ==
    /\ limit \in LimitPair
    /\ asked \in [soft : LimitArg, hard : LimitArg, was : LimitPair, ok : BOOLEAN]
    /\ RlimitAsAsked

(* One line of RlimitAsAsked: what getrlimit makes of "now" fits the call.  *)
Shown(now) == IF now = RLIM_INFINITY THEN [type |-> "unlimited"] ELSE [type |-> "number", n |-> now]
ShownValue(shown) == IF shown.type = "unlimited" THEN RLIM_INFINITY ELSE shown.n
Shows(now, ok, arg, was) ==
    IF ~ok \/ arg.type = "none" THEN ShownValue(Shown(now)) = was
    ELSE IF arg.type = "unlimited" THEN Shown(now) = [type |-> "unlimited"]
    ELSE arg.n >= 0 => ShownValue(Shown(now)) = arg.n

(* What getrlimit shows stands for the limit itself. *)
LEMMA ShownIsLimit ==
    ASSUME NEW now
    PROVE  /\ ShownValue(Shown(now)) = now
           /\ now = RLIM_INFINITY => Shown(now) = [type |-> "unlimited"]
  <1>1. CASE now = RLIM_INFINITY
    BY <1>1 DEF Shown, ShownValue
  <1>2. CASE now # RLIM_INFINITY
    BY <1>2 DEF Shown, ShownValue
  <1> QED BY <1>1, <1>2

(* The tables of pposix.c, entry by entry. *)
LEMMA Facilities ==
    /\ DOMAIN facility_strings = 1..5 /\ DOMAIN LevelPriority = 1..5
    /\ \A i \in 1..5 : \/ facility_strings[i] = facility_constants[i]
                       \/ facility_strings[i] \in {"syslog", "user", "uucp"}
    /\ \A i, j \in 1..5 : LevelPriority[i] = LevelPriority[j] => i = j
    /\ \A i \in 1..5 : LevelPriority[i] \in 0..7
  BY DEF facility_strings, facility_constants, LevelPriority

(* Credentials are changed without a look at the rest. *)
LEMMA CredentialsOnly ==
    ASSUME Credentials
    PROVE  UNCHANGED <<log, limit, asked, mask>>
  <1>1. ASSUME NEW user, NEW group, NEW faulty, switch_user(user, group, faulty)
        PROVE  UNCHANGED <<log, limit, asked, mask>>
    BY <1>1 DEF switch_user
  <1>2. ASSUME NEW suid, NEW sgid, NEW as_root, load_mod_posix(suid, sgid, as_root)
        PROVE  UNCHANGED <<log, limit, asked, mask>>
    BY <1>2 DEF load_mod_posix
  <1>3. ASSUME NEW faulty, server_started(faulty)
        PROVE  UNCHANGED <<log, limit, asked, mask>>
    BY <1>3 DEF server_started
  <1> QED BY <1>1, <1>2, <1>3 DEF Credentials

(* Each syslog call, on the record libc and pposix.c keep. *)
LEMMA LogStep ==
    ASSUME LogInv, [PosixNext]_posixVars
    PROVE  LogInv'
  <1>1. CASE UNCHANGED log
    BY <1>1 DEF LogInv, SyslogAsAsked, lc_syslog_log
  <1>2. ASSUME NEW i \in 1..5, lc_syslog_open(i)
        PROVE  LogInv'
    <2> DEFINE l == FreeIdent(log)
    <2>0. /\ l.min = log.min /\ l.bits = log.bits
          /\ l = [ident |-> l.ident, ptr |-> l.ptr, named |-> l.named,
                  facility |-> l.facility, min |-> l.min, bits |-> l.bits]
      BY DEF LogInv, FreeIdent
    <2>1. /\ log' = [l EXCEPT !.ident = TRUE, !.ptr = "live",
                          !.named = facility_strings[i], !.facility = facility_constants[i]]
      BY <1>2 DEF lc_syslog_open, openlog
    <2> HIDE DEF l
    <2>2. /\ log'.ident = TRUE /\ log'.ptr = "live" /\ log'.named = facility_strings[i]
          /\ log'.facility = facility_constants[i] /\ log'.min = log.min /\ log'.bits = log.bits
          /\ log' = [ident |-> log'.ident, ptr |-> log'.ptr, named |-> log'.named,
                     facility |-> log'.facility, min |-> log'.min, bits |-> log'.bits]
      BY <2>0, <2>1
    <2> QED BY <2>2, Facilities DEF LogInv, SyslogAsAsked, lc_syslog_log
  <1>3. ASSUME lc_syslog_close
        PROVE  LogInv'
    <2>1. /\ log'.ident = FALSE /\ log'.ptr = "null" /\ log'.named = log.named
          /\ log'.facility = log.facility /\ log'.min = log.min /\ log'.bits = log.bits
          /\ log' = [ident |-> log'.ident, ptr |-> log'.ptr, named |-> log'.named,
                     facility |-> log'.facility, min |-> log'.min, bits |-> log'.bits]
      BY <1>3 DEF LogInv, SyslogAsAsked, lc_syslog_close, closelog, FreeIdent
    <2> QED BY <2>1 DEF LogInv, SyslogAsAsked, lc_syslog_log
  <1>4. ASSUME NEW i \in 1..5, lc_syslog_setmask(i)
        PROVE  LogInv'
    <2>1. /\ log'.ident = log.ident /\ log'.ptr = log.ptr /\ log'.named = log.named
          /\ log'.facility = log.facility /\ log'.min = i
          /\ log'.bits = {LevelPriority[j] : j \in i..5}
          /\ log' = [ident |-> log'.ident, ptr |-> log'.ptr, named |-> log'.named,
                     facility |-> log'.facility, min |-> log'.min, bits |-> log'.bits]
      BY <1>4 DEF LogInv, lc_syslog_setmask
    <2>2. \A k \in 1..5 : LevelPriority[k] \in {LevelPriority[j] : j \in i..5} <=> k >= i
      BY Facilities
    <2> QED BY <2>1, <2>2, Facilities DEF LogInv, SyslogAsAsked, lc_syslog_log
  <1>5. CASE Syslog
    BY <1>2, <1>3, <1>4, <1>5, Facilities DEF Syslog
  <1>6. CASE Credentials
    BY <1>1, <1>6, CredentialsOnly
  <1>7. CASE Limiting \/ Masking \/ UNCHANGED posixVars
    BY <1>1, <1>7 DEF Limiting, Masking, posixVars, lc_setrlimit, lc_umask, RestoreUmask
  <1> QED BY <1>5, <1>6, <1>7 DEF PosixNext

(* An argument becomes an rlim_t: as it is, or its negative from the top. *)
LEMMA ArgToRlimit ==
    ASSUME NEW arg \in LimitArg, NEW current \in Rlims
    PROVE  /\ arg_to_rlimit(arg, current) \in Rlims
           /\ arg.type \in {"none", "unlimited", "number"}
           /\ arg.type = "none" => arg_to_rlimit(arg, current) = current
           /\ arg.type = "unlimited" => arg_to_rlimit(arg, current) = RLIM_INFINITY
           /\ arg.type = "number" =>
                 /\ arg.n \in Int
                 /\ arg_to_rlimit(arg, current) = IF arg.n < 0 THEN RlimWord + arg.n ELSE arg.n
  <1>1. RlimWord \in Nat /\ RlimWord > 1
    BY PosixAssumption
  <1>2. CASE arg \in [type : {"unlimited", "none"}]
    BY <1>1, <1>2 DEF arg_to_rlimit, Rlims, RLIM_INFINITY
  <1>3. CASE arg \in [type : {"number"}, n : LimitArgs]
    <2>1. arg.n \in Int /\ -RlimWord <= arg.n /\ arg.n <= RlimWord - 1 /\ arg.type = "number"
      BY <1>1, <1>3, PosixAssumption
    <2>2. PICK n \in Int : n = arg.n
      BY <2>1
    <2>3. n % RlimWord = IF n < 0 THEN RlimWord + n ELSE n
      BY ONLY <1>1, <2>1, <2>2
    <2>4. arg_to_rlimit(arg, current) = n % RlimWord
      BY <2>1, <2>2 DEF arg_to_rlimit
    <2> QED BY <1>1, <2>1, <2>2, <2>3, <2>4 DEF Rlims, RLIM_INFINITY
  <1> QED BY <1>2, <1>3 DEF LimitArg

(* setrlimit, whether the system lets it or not. *)
LEMMA LimitStep ==
    ASSUME LimitInv, [PosixNext]_posixVars
    PROVE  LimitInv'
  <1>1. CASE UNCHANGED <<limit, asked>>
    BY <1>1 DEF LimitInv, RlimitAsAsked, lc_getrlimit
  <1>2. ASSUME NEW soft \in LimitArg, NEW hard \in LimitArg, lc_setrlimit(soft, hard)
        PROVE  LimitInv'
    <2> DEFINE ls == arg_to_rlimit(soft, limit.soft)
               lh == arg_to_rlimit(hard, limit.hard)
               ok == ls <= lh /\ (lh <= limit.hard \/ creds.uid = 0)
    <2>1. /\ limit' = IF ok THEN [soft |-> ls, hard |-> lh] ELSE limit
          /\ asked' = [soft |-> soft, hard |-> hard, was |-> limit, ok |-> ok]
      BY <1>2 DEF lc_setrlimit
    <2>2. /\ limit \in LimitPair /\ limit.soft \in Rlims /\ limit.hard \in Rlims
      BY DEF LimitInv, LimitPair
    <2>3. ls \in Rlims /\ lh \in Rlims
      BY <2>2, ArgToRlimit
    <2>4. PICK done \in BOOLEAN : done <=> ok
      OBVIOUS
    <2> HIDE DEF ok
    <2>5. limit' \in LimitPair
      BY <2>1, <2>2, <2>3 DEF LimitPair
    <2>6. asked' = [soft |-> soft, hard |-> hard, was |-> limit, ok |-> done]
      BY <2>1, <2>4
    <2>7. asked' \in [soft : LimitArg, hard : LimitArg, was : LimitPair, ok : BOOLEAN]
      BY <1>2, <2>2, <2>6
    <2>8. RlimitAsAsked'
      <3>1. /\ asked'.soft = soft /\ asked'.hard = hard /\ asked'.was = limit /\ asked'.ok = done
        BY <2>6
      <3>2. /\ limit'.soft = IF done THEN ls ELSE limit.soft
            /\ limit'.hard = IF done THEN lh ELSE limit.hard
        BY <2>1, <2>4
      <3> HIDE DEF ls, lh
      <3>3. RLIM_INFINITY \in Int /\ RlimWord \in Int
        BY PosixAssumption DEF RLIM_INFINITY
      <3>4. ASSUME NEW arg \in LimitArg, NEW was \in Rlims, NEW now,
                   now = IF done THEN arg_to_rlimit(arg, was) ELSE was
            PROVE  now \in Rlims /\ Shows(now, done, arg, was)
        <4>1. /\ now \in Rlims /\ arg.type \in {"none", "unlimited", "number"}
              /\ done => arg_to_rlimit(arg, was) = now
              /\ ~done => now = was
          BY <3>4, ArgToRlimit
        <4>2. /\ ~done \/ arg.type = "none" => now = was
              /\ done /\ arg.type = "unlimited" => now = RLIM_INFINITY
              /\ done /\ arg.type = "number" =>
                    arg.n \in Int /\ now = IF arg.n < 0 THEN RlimWord + arg.n ELSE arg.n
          BY <4>1, ArgToRlimit
        <4>3. Shows(now, done, arg, was)
          BY <4>1, <4>2, ShownIsLimit DEF Shows
        <4> QED BY <4>1, <4>3
      <3>5. Shows(limit'.soft, done, soft, limit.soft) /\ Shows(limit'.hard, done, hard, limit.hard)
        BY <3>2, <3>4, <2>2 DEF ls, lh
      <3>6. asked'.was.soft = limit.soft /\ asked'.was.hard = limit.hard
        BY <3>1
      <3> QED BY <3>1, <3>5, <3>6 DEF RlimitAsAsked, lc_getrlimit, Shows, Shown, ShownValue
    <2> QED BY <2>5, <2>7, <2>8 DEF LimitInv
  <1>3. CASE Limiting
    BY <1>2, <1>3 DEF Limiting
  <1>4. CASE Credentials
    BY <1>1, <1>4, CredentialsOnly
  <1>5. CASE Syslog \/ Masking \/ UNCHANGED posixVars
    BY <1>1, <1>5 DEF Syslog, Masking, posixVars, lc_syslog_open, lc_syslog_close, lc_syslog_setmask,
                      lc_umask, RestoreUmask
  <1> QED BY <1>3, <1>4, <1>5 DEF PosixNext

-----------------------------------------------------------------------------
(* The mask.  What umask reads of a text is defined by recursion over its   *)
(* digits; that such a function exists and is a number is shown by a least  *)
(* counterexample.                                                          *)

(* A set of numbers that is not empty has a least one. *)
LEMMA LeastOf ==
    ASSUME NEW S \in SUBSET Nat, S # {}
    PROVE  \E x \in S : \A y \in S : x <= y
  <1> DEFINE R == OpToRel(<, Nat)
  <1>1. IsWellFoundedOn(R, Nat)
    BY NatLessThanWellFounded
  <1>2. \A x, y \in Nat : x < y => <<x, y>> \in R
    BY DEF OpToRel
  <1> HIDE DEF R
  <1>3. PICK x \in S : \A y \in S : ~(<<y, x>> \in R)
    BY <1>1, WFMin
  <1>4. ASSUME NEW y \in S PROVE x <= y
    <2>1. x \in Nat /\ y \in Nat
      OBVIOUS
    <2>2. ~(y < x)
      BY <2>1, <1>2, <1>3
    <2> QED BY <2>1, <2>2
  <1> QED BY <1>3, <1>4

(* The value of the first i octal digits of t, for every i up to n. *)
Octal(t, n) == CHOOSE value : value = [i \in 0..n |-> IF i = 0 THEN 0 ELSE 8 * value[i - 1] + t[i]]

IsOctal(v, t, n) == v = [i \in 0..n |-> IF i = 0 THEN 0 ELSE 8 * v[i - 1] + t[i]]

LEMMA OctalIsNumber ==
    ASSUME NEW n \in Nat, NEW t, \A i \in 1..n : t[i] \in Nat
    PROVE  IsOctal(Octal(t, n), t, n) /\ Octal(t, n)[n] \in Nat
  <1> DEFINE Has(m) == \E v : IsOctal(v, t, m) /\ \A i \in 0..m : v[i] \in Nat
             Bad == {m \in 0..n : ~Has(m)}
  <1>1. Has(0)
    <2>1. PICK v : v = [i \in 0..0 |-> 0]
      OBVIOUS
    <2>2. \A i \in 0..0 : i = 0
      OBVIOUS
    <2> QED BY <2>1, <2>2 DEF IsOctal
  <1>2. ASSUME NEW m \in 0..n, m # 0, Has(m - 1) PROVE Has(m)
    <2>1. PICK v : IsOctal(v, t, m - 1) /\ \A i \in 0..m - 1 : v[i] \in Nat
      BY <1>2
    <2> DEFINE w == [i \in 0..m |-> IF i = 0 THEN 0 ELSE 8 * v[i - 1] + t[i]]
    <2>2. \A i \in 0..m - 1 : v[i] = IF i = 0 THEN 0 ELSE 8 * v[i - 1] + t[i]
      BY ONLY <2>1 DEF IsOctal
    <2>3. \A i \in 0..m - 1 : i \in 0..m /\ w[i] = v[i]
      BY <2>2
    <2>4. \A i \in 0..m : i # 0 => i - 1 \in 0..m - 1 /\ i \in 1..n
      BY <1>2
    <2>5. \A i \in 0..m : w[i] = IF i = 0 THEN 0 ELSE 8 * v[i - 1] + t[i]
      OBVIOUS
    <2>6. \A i \in 0..m : w[i] = IF i = 0 THEN 0 ELSE 8 * w[i - 1] + t[i]
      BY <2>3, <2>4, <2>5
    <2>7. ASSUME NEW i \in 0..m PROVE w[i] \in Nat
      <3>1. CASE i = 0
        BY <2>5, <3>1
      <3>2. CASE i # 0
        <4>1. v[i - 1] \in Nat /\ t[i] \in Nat
          BY <2>1, <2>4, <3>2
        <4>2. w[i] = 8 * v[i - 1] + t[i]
          BY <2>5, <3>2
        <4> HIDE DEF w
        <4> QED BY ONLY <4>1, <4>2
      <3> QED BY <3>1, <3>2
    <2>8. w = [i \in 0..m |-> w[i]]
      OBVIOUS
    <2> HIDE DEF w
    <2>9. IsOctal(w, t, m)
      BY <2>6, <2>8 DEF IsOctal
    <2> QED BY <2>7, <2>9
  <1>3. Has(n)
    <2> SUFFICES ASSUME ~Has(n) PROVE FALSE
      OBVIOUS
    <2> HIDE DEF Has
    <2>1. Bad \in SUBSET Nat /\ n \in Bad
      OBVIOUS
    <2>2. PICK m \in Bad : \A y \in Bad : m <= y
      BY <2>1, LeastOf
    <2>3. m # 0 /\ m \in 0..n
      BY <1>1, <2>2
    <2>4. m - 1 \in 0..n /\ ~(m <= m - 1)
      BY <2>3
    <2>5. Has(m - 1)
      BY <2>2, <2>4
    <2> QED BY <1>2, <2>2, <2>3, <2>5
  <1>4. IsOctal(Octal(t, n), t, n)
    <2>1. \E v : IsOctal(v, t, n)
      BY <1>3
    <2> QED BY <2>1 DEF IsOctal, Octal
  <1>5. PICK v : v = Octal(t, n)
    OBVIOUS
  <1>6. \A i \in 0..n : v[i] = IF i = 0 THEN 0 ELSE 8 * v[i - 1] + t[i]
    BY ONLY <1>4, <1>5 DEF IsOctal
  <1> DEFINE Odd == {i \in 0..n : v[i] \notin Nat}
  <1>7. Odd = {}
    <2> SUFFICES ASSUME Odd # {} PROVE FALSE
      OBVIOUS
    <2>1. Odd \in SUBSET Nat
      OBVIOUS
    <2>2. PICK m \in Odd : \A y \in Odd : m <= y
      BY <2>1, LeastOf
    <2>3. m \in 0..n /\ v[m] \notin Nat
      BY <2>2
    <2>4. m # 0
      BY <1>6, <2>3
    <2>5. m - 1 \in 0..n /\ m \in 1..n /\ ~(m <= m - 1)
      BY <2>3, <2>4
    <2>6. v[m - 1] \in Nat
      BY <2>2, <2>5
    <2>7. v[m] = 8 * v[m - 1] + t[m] /\ t[m] \in Nat
      BY <1>6, <2>3, <2>4, <2>5
    <2> QED BY ONLY <2>3, <2>6, <2>7
  <1> QED BY <1>4, <1>5, <1>7

(* How many digits strtoul reads. *)
Digits(str) ==
    LET ends == {i \in 1..Len(str) : str[i] > 7}
    IN  IF ends = {} THEN Len(str) ELSE Min(ends) - 1

LEMMA ReadsOctal ==
    ASSUME NEW str
    PROVE  strtoul8(str) = Octal(str, Digits(str))[Digits(str)] % 512
  BY DEF strtoul8, Octal, Digits

(* A mask that was read has nine bits. *)
LEMMA MaskInRange ==
    ASSUME NEW str \in Seq(Nat)
    PROVE  strtoul8(str) \in 0..511
  <1> DEFINE ends == {i \in 1..Len(str) : str[i] > 7}
  <1>1. Len(str) \in Nat /\ \A i \in 1..Len(str) : str[i] \in Nat
    BY LenProperties, ElementOfSeq
  <1>2. ends # {} => Min(ends) \in 1..Len(str)
    <2>1. ends \in SUBSET Nat
      BY <1>1
    <2>2. ends # {} => Min(ends) \in ends
      <3> HIDE DEF ends
      <3> QED BY <2>1, LeastOf DEF Min
    <2> QED BY <2>2
  <1>3. Digits(str) \in Nat /\ Digits(str) <= Len(str)
    <2> HIDE DEF ends
    <2> QED BY <1>1, <1>2 DEF Digits, ends
  <1>4. PICK n : n = Digits(str)
    OBVIOUS
  <1>5. n \in Nat /\ \A i \in 1..n : str[i] \in Nat
    BY <1>1, <1>3, <1>4
  <1>6. Octal(str, n)[n] \in Nat
    BY <1>5, OctalIsNumber
  <1>7. PICK o \in Nat : o = Octal(str, n)[n]
    BY <1>6
  <1>8. o % 512 \in 0..511
    OBVIOUS
  <1> QED BY <1>4, <1>7, <1>8, ReadsOctal

(* "%03o" and strtoul are inverse on nine bits. *)
LEMMA FormatIsRead ==
    ASSUME NEW n \in 0..511
    PROVE  strtoul8(format03o(n)) = n
  <1>1. PICK a, b, c : a = n \div 64 /\ b = n \div 8 % 8 /\ c = n % 8
    OBVIOUS
  <1>2. a \in 0..7 /\ b \in 0..7 /\ c \in 0..7 /\ (8 * (8 * a + b) + c) = n
    BY <1>1
  <1>3. PICK t : t = <<a, b, c>>
    OBVIOUS
  <1>4. t = format03o(n)
    BY <1>1, <1>3 DEF format03o
  <1>5. Len(t) = 3 /\ t[1] = a /\ t[2] = b /\ t[3] = c
    BY <1>3
  <1>6. \A i \in 1..3 : i = 1 \/ i = 2 \/ i = 3
    OBVIOUS
  <1>7. \A i \in 1..3 : t[i] \in Nat /\ ~(t[i] > 7)
    BY <1>2, <1>5, <1>6
  <1>8. Digits(t) = 3
    <2>1. {i \in 1..Len(t) : t[i] > 7} = {}
      BY <1>5, <1>7
    <2> QED BY <1>5, <2>1 DEF Digits
  <1>9. PICK v : v = Octal(t, 3)
    OBVIOUS
  <1>10. IsOctal(v, t, 3)
    BY <1>7, <1>9, OctalIsNumber
  <1>11. \A i \in 0..3 : v[i] = IF i = 0 THEN 0 ELSE 8 * v[i - 1] + t[i]
    BY ONLY <1>10 DEF IsOctal
  <1>12. v[0] = 0 /\ v[1] = 8 * v[0] + a /\ v[2] = 8 * v[1] + b /\ v[3] = 8 * v[2] + c
    <2>1. 0 \in 0..3 /\ 1 \in 0..3 /\ 2 \in 0..3 /\ 3 \in 0..3 /\ 1 - 1 = 0 /\ 2 - 1 = 1 /\ 3 - 1 = 2
      OBVIOUS
    <2> QED BY <1>5, <1>11, <2>1
  <1>13. v[3] = n
    BY <1>2, <1>12
  <1>14. n % 512 = n
    OBVIOUS
  <1> QED BY <1>4, <1>8, <1>9, <1>13, <1>14, ReadsOctal

(* Each text kept is the mask of its time, written out. *)
MaskInv ==
    /\ mask = [now |-> mask.now, kept |-> mask.kept, was |-> mask.was]
    /\ mask.now \in 0..511
    /\ mask.was \in Seq(0..511) /\ mask.kept \in Seq(Seq(Nat))
    /\ Len(mask.kept) = Len(mask.was)
    /\ \A i \in 1..Len(mask.was) : mask.kept[i] = format03o(mask.was[i])

LEMMA MaskStep ==
    ASSUME MaskInv, [PosixNext]_posixVars
    PROVE  MaskInv'
  <1>1. CASE UNCHANGED mask
    BY <1>1 DEF MaskInv
  <1> DEFINE N == Len(mask.was)
             W == 0..511
             T == Seq(Nat)
  <1>2. /\ mask.now \in W /\ mask.was \in Seq(W) /\ mask.kept \in Seq(T) /\ Len(mask.kept) = N
        /\ \A i \in 1..N : mask.kept[i] = format03o(mask.was[i])
    BY DEF MaskInv
  <1>3. N \in Nat /\ \A i \in 1..N : mask.was[i] \in W /\ mask.kept[i] \in T
    <2> HIDE DEF W, T
    <2>1. N \in Nat
      BY ONLY <1>2, LenProperties
    <2> QED BY ONLY <1>2, <2>1, ElementOfSeq
  <1> HIDE DEF W, T, N
  <1>4. ASSUME NEW str \in UmaskTexts, lc_umask(str) PROVE MaskInv'
    <2>1. PICK f : f = format03o(mask.now)
      OBVIOUS
    <2>2. PICK k, w, x : k = Append(mask.kept, f) /\ w = Append(mask.was, mask.now) /\ x = strtoul8(str)
      OBVIOUS
    <2>3. mask' = [now |-> x, kept |-> k, was |-> w]
      BY <1>4, <2>1, <2>2 DEF lc_umask
    <2>4. x \in W
      BY <2>2, MaskInRange, PosixAssumption DEF W
    <2>5. f \in T
      <3>1. mask.now \div 64 \in Nat /\ mask.now \div 8 % 8 \in Nat /\ mask.now % 8 \in Nat
        <4>1. \A n \in 0..511 : n \div 64 \in Nat /\ n \div 8 % 8 \in Nat /\ n % 8 \in Nat
          OBVIOUS
        <4> QED BY ONLY <1>2, <4>1 DEF W
      <3> QED BY <2>1, <3>1 DEF T, format03o
    <2>6. /\ k \in Seq(T) /\ Len(k) = N + 1 /\ k[N + 1] = f /\ \A i \in 1..N : k[i] = mask.kept[i]
      BY <1>2, <2>2, <2>5, AppendProperties
    <2>7. /\ w \in Seq(W) /\ Len(w) = N + 1 /\ w[N + 1] = mask.now /\ \A i \in 1..N : w[i] = mask.was[i]
      BY <1>2, <2>2, AppendProperties DEF N
    <2>8. \A i \in 1..N + 1 : i = N + 1 \/ i \in 1..N
      BY <1>3
    <2>9. \A i \in 1..Len(w) : k[i] = format03o(w[i])
      BY <1>2, <2>1, <2>6, <2>7, <2>8
    <2>10. mask'.now = x /\ mask'.kept = k /\ mask'.was = w
      BY <2>3
    <2> QED BY <2>3, <2>4, <2>6, <2>7, <2>9, <2>10 DEF MaskInv, W, T
  <1>5. CASE RestoreUmask
    <2>1. PICK k, w, x : /\ k = SubSeq(mask.kept, 1, N - 1) /\ w = SubSeq(mask.was, 1, N - 1)
                         /\ x = strtoul8(mask.kept[N])
      OBVIOUS
    <2>2. mask' = [now |-> x, kept |-> k, was |-> w]
      BY <1>2, <1>5, <2>1 DEF RestoreUmask, Front, Last, N
    <2>3. N # 0
      <3>1. mask.kept # << >>
        BY <1>5 DEF RestoreUmask
      <3> QED BY <1>2, <3>1, EmptySeq
    <2>4. x \in W
      <3>1. N \in 1..N
        BY <1>3, <2>3
      <3>2. mask.kept[N] \in Seq(Nat)
        BY <1>3, <3>1 DEF T
      <3> QED BY <2>1, <3>2, MaskInRange DEF W
    <2>5. N - 1 \in Nat /\ (\A i \in 1..N - 1 : i \in 1..N /\ 1 + i - 1 = i) /\ 1 \in Int /\ N - 1 \in Int
          /\ (IF 1 <= N - 1 THEN N - 1 - 1 + 1 ELSE 0) = N - 1 /\ N - 1 - 1 + 1 = N - 1
      BY <1>3, <2>3
    <2>6. k \in Seq(T) /\ Len(k) = N - 1 /\ \A i \in 1..N - 1 : k[i] = mask.kept[i]
      BY <1>3, <2>1, <2>5, SubSeqProperties
    <2>7. w \in Seq(W) /\ Len(w) = N - 1 /\ \A i \in 1..N - 1 : w[i] = mask.was[i]
      BY <1>3, <2>1, <2>5, SubSeqProperties
    <2>8. \A i \in 1..Len(w) : k[i] = format03o(w[i])
      BY <1>2, <2>5, <2>6, <2>7
    <2>9. mask'.now = x /\ mask'.kept = k /\ mask'.was = w
      BY <2>2
    <2> QED BY <2>2, <2>4, <2>6, <2>7, <2>8, <2>9 DEF MaskInv, W, T
  <1>6. CASE Masking
    BY <1>4, <1>5, <1>6 DEF Masking
  <1>7. CASE Credentials
    BY <1>1, <1>7, CredentialsOnly
  <1>8. CASE Syslog
    BY <1>1, <1>8 DEF Syslog, lc_syslog_open, lc_syslog_close, lc_syslog_setmask
  <1>9. CASE Limiting
    BY <1>1, <1>9 DEF Limiting, lc_setrlimit
  <1>10. CASE UNCHANGED posixVars
    BY <1>1, <1>10 DEF posixVars
  <1> QED BY <1>6, <1>7, <1>8, <1>9, <1>10 DEF PosixNext

LEMMA MaskIsRestored ==
    ASSUME MaskInv
    PROVE  UmaskRestored
  <1> SUFFICES ASSUME NEW i \in DOMAIN mask.kept PROVE strtoul8(mask.kept[i]) = mask.was[i]
    BY DEF UmaskRestored
  <1>1. /\ i \in 1..Len(mask.was) /\ mask.kept[i] = format03o(mask.was[i])
    <2>1. /\ mask.kept \in Seq(Seq(Nat)) /\ Len(mask.kept) = Len(mask.was)
          /\ \A j \in 1..Len(mask.was) : mask.kept[j] = format03o(mask.was[j])
      BY DEF MaskInv
    <2>2. DOMAIN mask.kept = 1..Len(mask.kept)
      BY <2>1, LenProperties
    <2> QED BY <2>1, <2>2
  <1>2. mask.was[i] \in 0..511
    BY <1>1, ElementOfSeq DEF MaskInv
  <1> QED BY <1>1, <1>2, FormatIsRead

LEMMA MaskInit ==
    ASSUME PosixInit
    PROVE  MaskInv
  <1>1. mask = [now |-> 18, kept |-> <<>>, was |-> <<>>]
    BY DEF PosixInit
  <1>2. mask.now = 18 /\ mask.kept = <<>> /\ mask.was = <<>>
    BY <1>1
  <1> QED BY <1>1, <1>2 DEF MaskInv


(* After any sequence of calls, libc holds no pointer to a freed ident and  *)
(* lets exactly the messages of the chosen level or above through,          *)
(* getrlimit shows what the last setrlimit asked for, or, if it failed,     *)
(* what was there before, and the texts that umask returned restore the     *)
(* masks they stand for (pposix.c:198-266, 467-590).                        *)
THEOREM AsAskedHolds == PosixSpec => []AsAsked
  <1>1. PosixInit => LogInv
    BY Facilities DEF PosixInit, LogInv, SyslogAsAsked, lc_syslog_log
  <1>2. PosixInit => LimitInv
    <2> SUFFICES ASSUME PosixInit PROVE LimitInv
      OBVIOUS
    <2>1. limit = [soft |-> 1, hard |-> RLIM_INFINITY]
      BY DEF PosixInit
    <2>2. asked = [soft |-> [type |-> "none"], hard |-> [type |-> "none"], was |-> limit, ok |-> TRUE]
      BY DEF PosixInit
    <2>3. RLIM_INFINITY \in Nat /\ RLIM_INFINITY >= 1
      BY PosixAssumption DEF RLIM_INFINITY
    <2>4. limit \in LimitPair /\ [type |-> "none"] \in LimitArg
      BY <2>1, <2>3 DEF LimitPair, Rlims, LimitArg
    <2>5. asked \in [soft : LimitArg, hard : LimitArg, was : LimitPair, ok : BOOLEAN]
      BY <2>2, <2>4
    <2>6. /\ limit.soft = 1 /\ limit.hard = RLIM_INFINITY
          /\ asked.was.soft = 1 /\ asked.was.hard = RLIM_INFINITY
          /\ asked.soft.type = "none" /\ asked.hard.type = "none"
      BY <2>1, <2>2
    <2>7. Shows(limit.soft, asked.ok, asked.soft, asked.was.soft)
            /\ Shows(limit.hard, asked.ok, asked.hard, asked.was.hard)
      BY <2>6, ShownIsLimit DEF Shows
    <2>8. RlimitAsAsked
      BY <2>7 DEF RlimitAsAsked, lc_getrlimit, Shows, Shown, ShownValue
    <2> QED BY <2>4, <2>5, <2>8 DEF LimitInv
  <1>3. PosixInit => MaskInv
    BY MaskInit
  <1>4. LogInv /\ LimitInv /\ MaskInv /\ [PosixNext]_posixVars => LogInv' /\ LimitInv' /\ MaskInv'
    BY LogStep, LimitStep, MaskStep
  <1>5. LogInv /\ LimitInv /\ MaskInv => AsAsked
    <2> SUFFICES ASSUME LogInv, LimitInv, MaskInv PROVE AsAsked
      OBVIOUS
    <2>1. SyslogAsAsked /\ RlimitAsAsked
      BY DEF LogInv, LimitInv
    <2>2. UmaskRestored
      BY MaskIsRestored
    <2> QED BY <2>1, <2>2 DEF AsAsked
  <1> QED BY <1>1, <1>2, <1>3, <1>4, <1>5, PTL DEF PosixSpec
-----------------------------------------------------------------------------
(* The pidfile and prosodyctl. *)
Places == {"new", "bare", "stat", "open", "lock", "close", "reopen", "relock", "up", "removing",
           "quit", "gone"}
Holding == {"lock", "close", "relock", "up"}
Roles == {"none", "starting", "done", "serving", "exited"}

InstTypes ==
    /\ name \in {0} \cup Files /\ handle \in [Users -> {0} \cup Files]
    /\ lock \in [Files -> Users \cup {Nobody}] /\ text \in [Files -> Starts \cup {Nobody}]
    /\ mode \in [Starts -> {"r+", "w+"}]
    /\ mishap \subseteq {"fork", "ctl", "gap", "unlink", "emptied"}
    /\ ctl \in [at : {"idle", "lock", "close"}, says : Starts \cup {Nobody, "-", "down"},
                up : SUBSET Starts]

(* Which process of a start goes on, at each place. *)
Idle == {"none", "done", "exited"}
RoleOK(r, place) ==
    CASE place = "gone" -> r.parent \in Idle /\ r.child \in Idle /\ r.daemon \in Idle
      [] place = "new"  -> /\ r.daemon = "none"
                           /\ \/ r.parent = "starting" /\ r.child = "none"
                              \/ r.parent \in {"done", "exited"} /\ r.child = "starting"
      [] OTHER -> \/ r.parent = "serving" /\ r.child \in Idle /\ r.daemon \in Idle
                  \/ r.child = "serving" /\ r.parent \in Idle /\ r.daemon \in Idle
                  \/ r.daemon = "serving" /\ r.parent \in Idle /\ r.child \in Idle

RolesOK ==
    /\ role \in [Starts -> [parent : Roles, child : Roles, daemon : Roles]]
    /\ at \in [Starts -> Places]
    /\ \A s \in Starts : RoleOK(role[s], at[s])

(* Who has the file open, and who can have locked it. *)
HandlesOK ==
    /\ \A s \in Starts : handle[s] # 0 <=> at[s] \in Holding
    /\ handle[Ctl] # 0 <=> ctl.at # "idle"
LocksOK ==
    \A f \in Files :
        /\ \A s \in Starts : lock[f] = s => handle[s] = f /\ at[s] \in {"close", "up"}
        /\ lock[f] = Ctl => handle[Ctl] = f /\ ctl.at = "close"

(* As long as nothing went wrong every start that has a pidfile open has    *)
(* the one under the name, and the one that is up has locked it.            *)
Calm ==
    Undisturbed =>
        \A s \in Starts :
            /\ handle[s] \in {0, name}
            /\ at[s] = "up" => /\ lock[name] = s /\ text[name] \in {s, Nobody}
                               /\ text[name] = s \/ "emptied" \in mishap

(* What prosodyctl remembers of who was up is still so, or over. *)
CtlKnows ==
    /\ \A s \in ctl.up : at[s] \in {"up", "removing", "gone"}
    /\ Undisturbed /\ ctl.at = "lock" => \A s \in ctl.up : at[s] = "up" => handle[Ctl] = name

FilesOK == InstTypes /\ HandlesOK /\ LocksOK /\ Calm /\ CtlKnows /\ CtlIsRight
InstInv == RolesOK /\ FilesOK

(* The processes of a start: at most one of them is alive.  *)
LEMMA RolesStep ==
    ASSUME RolesOK, [InstNext]_instVars
    PROVE  RolesOK'
  <1>1. ASSUME NEW s \in Starts, NEW r \in [parent : Roles, child : Roles, daemon : Roles],
               NEW place \in Places,
               role' = [role EXCEPT ![s] = r], at' = [at EXCEPT ![s] = place], RoleOK(r, place)
        PROVE  RolesOK'
    BY <1>1 DEF RolesOK
  <1>2. ASSUME NEW s \in Starts
        PROVE  /\ role[s] \in [parent : Roles, child : Roles, daemon : Roles]
               /\ at[s] \in Places /\ RoleOK(role[s], at[s])
    BY DEF RolesOK
  <1>0. ASSUME NEW s \in Starts, NEW x
        PROVE  [role[s] EXCEPT !.parent = x] = [parent |-> x, child |-> role[s].child, daemon |-> role[s].daemon]
    <2>1. PICK r : r = role[s] /\ r \in [parent : Roles, child : Roles, daemon : Roles]
      BY <1>2
    <2>2. [r EXCEPT !.parent = x] = [parent |-> x, child |-> r.child, daemon |-> r.daemon]
      BY ONLY <2>1
    <2> QED BY <2>1, <2>2
  <1>3. ASSUME UNCHANGED <<role, at>> PROVE RolesOK'
    BY <1>3 DEF RolesOK
  <1>4. ASSUME NEW s \in Starts, Fork(s) PROVE RolesOK'
    <2>1. CASE role' = [role EXCEPT ![s].parent = "done", ![s].child = "starting"] /\ at' = at
      <3>1. PICK r : r = [parent |-> "done", child |-> "starting", daemon |-> role[s].daemon]
        OBVIOUS
      <3>2. role' = [role EXCEPT ![s] = r] /\ at' = [at EXCEPT ![s] = at[s]]
        <4>1. PICK r1 : r1 = [role[s] EXCEPT !.parent = "done"]
          OBVIOUS
        <4>2. r1 = [parent |-> "done", child |-> role[s].child, daemon |-> role[s].daemon]
          BY <1>0, <4>1
        <4>3. [r1 EXCEPT !.child = "starting"] = r
          BY ONLY <3>1, <4>2
        <4> QED BY <1>2, <2>1, <4>1, <4>3 DEF RolesOK
      <3>3. r \in [parent : Roles, child : Roles, daemon : Roles] /\ RoleOK(r, at[s])
        BY <1>2, <1>4, <3>1 DEF Fork, RoleOK, Roles, Idle
      <3> QED BY <1>1, <1>2, <3>2, <3>3
    <2>2. CASE role' = [role EXCEPT ![s].parent = "serving"] /\ Step(s, "new", "bare")
      <3>1. PICK r : r = [parent |-> "serving", child |-> role[s].child, daemon |-> role[s].daemon]
        OBVIOUS
      <3>2. role' = [role EXCEPT ![s] = r] /\ at' = [at EXCEPT ![s] = "bare"] /\ at[s] = "new"
        <4>1. [role[s] EXCEPT !.parent = "serving"] = r
          BY <1>0, <3>1
        <4> QED BY <2>2, <4>1 DEF Step
      <3>3. r \in [parent : Roles, child : Roles, daemon : Roles] /\ RoleOK(r, "bare")
        BY <1>2, <1>4, <3>1, <3>2 DEF Fork, RoleOK, Roles, Idle
      <3> QED BY <1>1, <3>2, <3>3 DEF Places
    <2> QED BY <1>4, <2>1, <2>2 DEF Fork
  <1>5. ASSUME NEW s \in Starts, ParentExits(s) PROVE RolesOK'
    <2>1. PICK r : r = [parent |-> "exited", child |-> role[s].child, daemon |-> role[s].daemon]
      OBVIOUS
    <2>2. role' = [role EXCEPT ![s] = r] /\ at' = [at EXCEPT ![s] = at[s]] /\ role[s].parent = "done"
      <3>1. [role[s] EXCEPT !.parent = "exited"] = r
        BY <1>0, <2>1
      <3> QED BY <1>5, <3>1 DEF ParentExits, RolesOK
    <2>3. r \in [parent : Roles, child : Roles, daemon : Roles] /\ RoleOK(r, at[s])
      BY <1>2, <2>1, <2>2 DEF RoleOK, Roles, Idle
    <2> QED BY <1>1, <1>2, <2>2, <2>3
  <1>6. ASSUME NEW s \in Starts, SetsidAndFork(s) PROVE RolesOK'
    <2>1. ASSUME NEW c \in {"exited", "serving"}, NEW d \in {"none", "serving"}, NEW place \in Places,
                 \/ c = "exited" /\ d = "serving" /\ place = "stat"
                 \/ c = "serving" /\ d = "none" /\ place = "bare"
                 \/ c = "exited" /\ d = "none" /\ place = "gone",
                 role'[s].child = c, Step(s, "new", place),
                 role' = [role EXCEPT ![s].child = c, ![s].daemon = d]
          PROVE  RolesOK'
      <3>1. PICK r : r = [parent |-> role[s].parent, child |-> c, daemon |-> d]
        OBVIOUS
      <3>2. role' = [role EXCEPT ![s] = r] /\ at' = [at EXCEPT ![s] = place] /\ at[s] = "new"
        BY <1>2, <2>1, <3>1 DEF RolesOK, Step
      <3>3. r \in [parent : Roles, child : Roles, daemon : Roles] /\ RoleOK(r, place)
        BY <1>2, <1>6, <2>1, <3>1, <3>2 DEF SetsidAndFork, RoleOK, Roles, Idle
      <3> QED BY <1>1, <3>2, <3>3
    <2>2. at[s] = "new" /\ role[s].daemon = "none"
      BY <1>2, <1>6 DEF SetsidAndFork, Step, RoleOK
    <2> QED BY <1>2, <1>6, <2>1, <2>2 DEF SetsidAndFork, Places, RolesOK
  <1>7. ASSUME NEW s \in Starts, Foreground(s) PROVE RolesOK'
    <2>1. PICK r : r = [parent |-> "serving", child |-> role[s].child, daemon |-> role[s].daemon]
      OBVIOUS
    <2>2. /\ role' = [role EXCEPT ![s] = r] /\ at' = [at EXCEPT ![s] = "stat"]
          /\ role[s].parent = "starting" /\ at[s] = "new"
      <3>1. [role[s] EXCEPT !.parent = "serving"] = r
        BY <1>0, <2>1
      <3> QED BY <1>7, <3>1 DEF Foreground, Step
    <2>3. r \in [parent : Roles, child : Roles, daemon : Roles] /\ RoleOK(r, "stat")
      BY <1>2, <2>1, <2>2 DEF RoleOK, Roles, Idle
    <2> QED BY <1>1, <2>2, <2>3 DEF Places
  (* The server goes on, and its place is not the first or the last. *)
  <1>8. ASSUME NEW s \in Starts, NEW from \in Places \ {"new", "gone"}, NEW to \in Places \ {"new", "gone"},
               Step(s, from, to), role' = role
        PROVE  RolesOK'
    <2>1. role' = [role EXCEPT ![s] = role[s]] /\ at' = [at EXCEPT ![s] = to] /\ RoleOK(role[s], to)
      BY <1>2, <1>8 DEF RolesOK, Step, RoleOK
    <2> QED BY <1>1, <1>2, <2>1
  <1>9. ASSUME NEW s \in Starts, NEW from, Step(s, from, "gone"),
               role' = [role EXCEPT ![s] = [p \in DOMAIN @ |-> "exited"]]
        PROVE  RolesOK'
    <2>1. PICK r : r = [parent |-> "exited", child |-> "exited", daemon |-> "exited"]
      OBVIOUS
    <2>2. [p \in DOMAIN role[s] |-> "exited"] = r
      BY <1>2, <2>1
    <2>3. role' = [role EXCEPT ![s] = r] /\ at' = [at EXCEPT ![s] = "gone"]
      BY <1>9, <2>2 DEF Step
    <2>4. r \in [parent : Roles, child : Roles, daemon : Roles] /\ RoleOK(r, "gone")
      BY <2>1 DEF Roles, RoleOK, Idle
    <2> QED BY <1>1, <2>3, <2>4 DEF Places
  <1>10. ASSUME NEW s \in Starts, Stat(s) \/ Open(s) \/ Lock(s) \/ Reopen(s) \/ Relock(s) PROVE RolesOK'
    BY <1>8, <1>10 DEF Stat, Open, Lock, Reopen, Relock, Places
  <1>11. ASSUME NEW s \in Starts, RemovePidfile(s) PROVE RolesOK'
    BY <1>8, <1>9, <1>11 DEF RemovePidfile, Places
  <1>12. ASSUME NEW s \in Starts, Exits(s) PROVE RolesOK'
    BY <1>9, <1>12 DEF Exits
  <1>13. CASE GetPid
    BY <1>3, <1>13 DEF GetPid
  <1>14. CASE UNCHANGED instVars
    BY <1>3, <1>14 DEF instVars
  <1> QED BY <1>4, <1>5, <1>6, <1>7, <1>10, <1>11, <1>12, <1>13, <1>14 DEF InstNext

(* Min is the least one. *)
LEMMA LeastExists ==
    ASSUME NEW S \in SUBSET Nat, S # {}
    PROVE  Min(S) \in S
  BY LeastOf DEF Min

(* There is a file for a start that creates one. *)
LEMMA FileIsFresh ==
    ASSUME InstTypes, NEW s \in Starts, handle[s] = 0, name = 0
    PROVE  FreshFile \in Files /\ \A u \in Users : FreshFile # handle[u]
  <1> DEFINE Others == Users \ {s}
             Held == {handle[u] : u \in Others}
             f == [u \in Others |-> handle[u]]
             C == Cardinality(Starts)
             Free == Files \ ({name} \cup {handle[u] : u \in Users})
  <1>1. C \in Nat /\ IsFiniteSet(Others) /\ Cardinality(Others) = C
    <2>1. IsFiniteSet(Users) /\ Cardinality(Users) = C + 1 /\ C \in Nat
      BY InstAssumption, FS_AddElement, FS_CardinalityType DEF Users
    <2>2. s \in Users
      BY DEF Users
    <2>3. IsFiniteSet(Others) /\ Cardinality(Others) = Cardinality(Users) - 1
      BY <2>1, <2>2, FS_RemoveElement
    <2> HIDE DEF C, Others
    <2> QED BY <2>1, <2>3
  <1>2. IsFiniteSet(Held) /\ Cardinality(Held) <= C /\ Cardinality(Held) \in Nat
    <2>1. f \in Surjection(Others, Held)
      BY DEF Surjection
    <2> HIDE DEF f, Held, Others
    <2> QED BY <1>1, <2>1, FS_Surjection, FS_CardinalityType
  <1>3. IsFiniteSet(Files) /\ Cardinality(Files) = C + 1
    <2> HIDE DEF C
    <2>1. Files = 1..(C + 1)
      BY DEF Files, C
    <2>2. C + 1 \in Int /\ 1 \in Int /\ C + 1 >= 1
      BY <1>1
    <2> QED BY <1>1, <2>1, <2>2, FS_Interval
  <1>4. ~(Files \subseteq Held)
    <2> HIDE DEF Held, C
    <2> SUFFICES ASSUME Files \subseteq Held PROVE FALSE
      OBVIOUS
    <2>1. Cardinality(Files) <= Cardinality(Held)
      BY <1>2, FS_Subset
    <2> QED BY <1>1, <1>2, <1>3, <2>1
  <1>5. Free # {}
    <2>1. PICK k \in Files : k \notin Held
      BY <1>4
    <2>2. k # 0
      BY <2>1 DEF Files
    <2> QED BY <2>1, <2>2
  <1>6. Free \in SUBSET Nat
    BY <1>1 DEF Files
  <1>7. FreshFile = Min(Free)
    BY DEF FreshFile
  <1> HIDE DEF Free
  <1>8. FreshFile \in Free
    BY <1>5, <1>6, <1>7, LeastExists
  <1> QED BY <1>8 DEF Free

(* Mishaps are only added, so what holds until then need only be kept.      *)
LEMMA CalmBefore ==
    ASSUME mishap \subseteq mishap', Undisturbed'
    PROVE  Undisturbed
  BY DEF Undisturbed

(* s goes on without the pidfile: it closes it, or had none. *)
LEMMA Leaves ==
    ASSUME RolesOK, FilesOK, NEW s \in Starts, NEW to \in Places \ Holding,
           at' = [at EXCEPT ![s] = to],
           at[s] \in {"up", "removing", "gone"} => to \in {"removing", "gone"},
           handle' = [handle EXCEPT ![s] = 0],
           lock' = [f \in Files |-> IF lock[f] = s THEN Nobody ELSE lock[f]],
           mishap \subseteq mishap', mishap' \subseteq {"fork", "ctl", "gap", "unlink", "emptied"},
           mode' \in [Starts -> {"r+", "w+"}], UNCHANGED <<name, text, ctl>>
    PROVE  FilesOK'
  <1>1. /\ at \in [Starts -> Places] /\ InstTypes /\ s \in Users /\ Nobody \notin Starts /\ Nobody # Ctl
        /\ s # Ctl /\ Ctl \in Users
    BY InstAssumption DEF RolesOK, FilesOK, Users
  <1>2. /\ at'[s] = to /\ \A t \in Starts \ {s} : at'[t] = at[t]
        /\ handle'[s] = 0 /\ \A u \in Users \ {s} : handle'[u] = handle[u]
        /\ \A f \in Files : lock'[f] = IF lock[f] = s THEN Nobody ELSE lock[f]
    BY <1>1 DEF InstTypes
  <1>3. InstTypes'
    BY <1>1 DEF InstTypes
  <1>4. HandlesOK'
    BY <1>1, <1>2 DEF FilesOK, HandlesOK, Users
  <1>5. LocksOK'
    BY <1>1, <1>2 DEF FilesOK, LocksOK, Users
  <1>6. Calm'
    <2> SUFFICES ASSUME Undisturbed', NEW t \in Starts
                 PROVE  /\ handle'[t] \in {0, name}
                        /\ at'[t] = "up" => /\ lock'[name] = t /\ text[name] \in {t, Nobody}
                                            /\ text[name] = t \/ "emptied" \in mishap'
      BY DEF Calm
    <2>1. Undisturbed
      BY CalmBefore
    <2>2. t # s => /\ handle[t] \in {0, name} /\ handle'[t] = handle[t] /\ at'[t] = at[t]
                   /\ at[t] = "up" => /\ lock[name] = t /\ text[name] \in {t, Nobody}
                                      /\ text[name] = t \/ "emptied" \in mishap
      BY <1>2, <2>1 DEF FilesOK, Calm, Users
    <2>3. t # s /\ at[t] = "up" => name \in Files
      BY <1>1, <2>2 DEF FilesOK, HandlesOK, Holding, InstTypes, Users
    <2>4. at'[s] # "up"
      BY <1>2 DEF Holding
    <2> QED BY <1>2, <2>2, <2>3, <2>4
  <1>7. CtlKnows'
    <2>1. \A t \in ctl.up : t \in Starts /\ (at'[t] = "up" => at[t] = "up") /\ at'[t] \in {"up", "removing", "gone"}
      BY <1>1, <1>2 DEF FilesOK, CtlKnows, InstTypes, Holding
    <2>2. handle'[Ctl] = handle[Ctl]
      BY <1>1, <1>2
    <2> QED BY <2>1, <2>2, CalmBefore DEF FilesOK, CtlKnows
  <1>8. CtlIsRight'
    BY CalmBefore DEF FilesOK, CtlIsRight
  <1> QED BY <1>3, <1>4, <1>5, <1>6, <1>7, <1>8 DEF FilesOK

(* s opens the file under the name, or one that it creates. *)
LEMMA Takes ==
    ASSUME RolesOK, FilesOK, NEW s \in Starts, NEW to \in {"lock", "relock"}, NEW f \in Files,
           at[s] \in {"open", "reopen"}, at' = [at EXCEPT ![s] = to],
           f = name \/ (name = 0 /\ \A u \in Users : f # handle[u]),
           name' = f, handle' = [handle EXCEPT ![s] = f],
           text' = text \/ text' = [text EXCEPT ![f] = Nobody],
           mishap \subseteq mishap', mishap' \subseteq mishap \cup {"emptied"},
           text' # text /\ name # 0 /\ lock[f] \in Starts => "emptied" \in mishap',
           UNCHANGED <<mode, lock, ctl>>
    PROVE  FilesOK'
  <1>1. /\ at \in [Starts -> Places] /\ InstTypes /\ s \in Users /\ Nobody \notin Starts /\ Nobody # Ctl
        /\ s # Ctl /\ Ctl \in Users /\ 0 \notin Files
    BY InstAssumption DEF RolesOK, FilesOK, Users, Files
  <1>2. /\ at'[s] = to /\ \A t \in Starts \ {s} : at'[t] = at[t]
        /\ handle'[s] = f /\ \A u \in Users \ {s} : handle'[u] = handle[u]
        /\ \A g \in Files \ {f} : text'[g] = text[g]
        /\ text'[f] \in {text[f], Nobody}
    BY <1>1 DEF InstTypes
  <1>3. InstTypes'
    BY <1>1 DEF InstTypes
  <1>4. HandlesOK'
    BY <1>1, <1>2 DEF FilesOK, HandlesOK, Users, Holding
  <1>5. LocksOK'
    BY <1>1, <1>2 DEF FilesOK, LocksOK, Users
  <1>6. ASSUME Undisturbed, NEW t \in Starts, at[t] = "up"
        PROVE  t # s /\ name = f /\ lock[f] = t /\ text[f] \in {t, Nobody} /\ (text[f] = t \/ "emptied" \in mishap)
    <2>1. handle[t] # 0 /\ handle[t] \in {0, name} /\ lock[name] = t /\ text[name] \in {t, Nobody}
          /\ (text[name] = t \/ "emptied" \in mishap)
      BY <1>6 DEF FilesOK, HandlesOK, Calm, Holding
    <2> QED BY <1>6, <2>1
  <1>7. Calm'
    <2> SUFFICES ASSUME Undisturbed', NEW t \in Starts
                 PROVE  /\ handle'[t] \in {0, f}
                        /\ at'[t] = "up" => /\ lock[f] = t /\ text'[f] \in {t, Nobody}
                                            /\ text'[f] = t \/ "emptied" \in mishap'
      BY DEF Calm
    <2>1. Undisturbed
      BY CalmBefore
    <2>2. handle'[t] \in {0, f}
      <3>1. t # s => handle[t] \in {0, name} /\ handle'[t] = handle[t]
        BY <1>2, <2>1 DEF FilesOK, Calm, Users
      <3> QED BY <1>2, <3>1
    <2>3. at'[t] = "up" => at[t] = "up"
      BY <1>2
    <2>4. ASSUME at[t] = "up" PROVE text'[f] \in {t, Nobody} /\ (text'[f] = t \/ "emptied" \in mishap')
      <3>1. lock[f] = t /\ name = f /\ text[f] \in {t, Nobody} /\ (text[f] = t \/ "emptied" \in mishap)
        BY <1>6, <2>1, <2>4
      <3>2. CASE text' = text
        BY <3>1, <3>2
      <3>3. CASE text' # text
        <4>1. name # 0
          BY <1>1, <3>1
        <4>2. "emptied" \in mishap'
          BY <3>1, <3>3, <4>1
        <4> QED BY <1>2, <3>1, <4>2
      <3> QED BY <3>2, <3>3
    <2> QED BY <1>6, <2>1, <2>2, <2>3, <2>4
  <1>8. CtlKnows'
    <2>1. \A t \in ctl.up : t \in Starts /\ t # s /\ at'[t] = at[t] /\ at[t] \in {"up", "removing", "gone"}
      BY <1>1, <1>2 DEF FilesOK, CtlKnows, InstTypes
    <2>2. handle'[Ctl] = handle[Ctl]
      BY <1>1, <1>2
    <2> QED BY <1>6, <2>1, <2>2, CalmBefore DEF FilesOK, CtlKnows
  <1>9. CtlIsRight'
    BY CalmBefore DEF FilesOK, CtlIsRight
  <1> QED BY <1>3, <1>4, <1>5, <1>7, <1>8, <1>9 DEF FilesOK

(* s locks the file for the first time. *)
LEMMA Locks ==
    ASSUME RolesOK, FilesOK, NEW s \in Starts, at[s] = "lock", at' = [at EXCEPT ![s] = "close"],
           lock[handle[s]] = Nobody, lock' = [lock EXCEPT ![handle[s]] = s],
           UNCHANGED <<handle, mode, name, text, ctl, mishap>>
    PROVE  FilesOK'
  <1>1. /\ at \in [Starts -> Places] /\ InstTypes /\ s \in Users /\ Nobody \notin Starts /\ Nobody # Ctl
        /\ s # Ctl /\ Ctl \in Users
    BY InstAssumption DEF RolesOK, FilesOK, Users
  <1>2. handle[s] \in Files
    BY <1>1 DEF FilesOK, HandlesOK, InstTypes, Holding
  <1>3. /\ at'[s] = "close" /\ \A t \in Starts \ {s} : at'[t] = at[t]
        /\ lock'[handle[s]] = s /\ \A g \in Files \ {handle[s]} : lock'[g] = lock[g]
    BY <1>1, <1>2 DEF InstTypes
  <1>4. InstTypes'
    BY <1>1, <1>2 DEF InstTypes
  <1>5. HandlesOK'
    BY <1>1, <1>3 DEF FilesOK, HandlesOK, Holding
  <1>6. LocksOK'
    BY <1>1, <1>3 DEF FilesOK, LocksOK
  <1>7. Calm'
    <2>1. Undisturbed' <=> Undisturbed
      BY DEF Undisturbed
    <2>2. ASSUME Undisturbed, NEW t \in Starts, at'[t] = "up"
          PROVE  at[t] = "up" /\ lock'[name] = t
      <3>1. t # s /\ at[t] = "up"
        BY <1>3, <2>2
      <3>2. lock[name] = t /\ name \in Files
        BY <1>1, <2>2, <3>1 DEF FilesOK, Calm, HandlesOK, Holding, InstTypes, Users
      <3>3. name # handle[s]
        BY <1>1, <3>2
      <3> QED BY <1>3, <3>1, <3>2, <3>3
    <2> QED BY <2>1, <2>2 DEF FilesOK, Calm
  <1>8. CtlKnows'
    <2>1. \A t \in ctl.up : t \in Starts /\ t # s /\ at'[t] = at[t]
      BY <1>1, <1>3 DEF FilesOK, CtlKnows, InstTypes
    <2> QED BY <2>1, CalmBefore DEF FilesOK, CtlKnows, Undisturbed
  <1>9. CtlIsRight'
    BY DEF FilesOK, CtlIsRight, Undisturbed
  <1> QED BY <1>4, <1>5, <1>6, <1>7, <1>8, <1>9 DEF FilesOK

(* s is up: it has the lock and its pid is in the file, or is without both. *)
LEMMA Rises ==
    ASSUME RolesOK, FilesOK, NEW s \in Starts, Relock(s)
    PROVE  FilesOK'
  <1>1. /\ at \in [Starts -> Places] /\ InstTypes /\ s \in Users /\ Nobody \notin Starts /\ Nobody # Ctl
        /\ s # Ctl /\ Ctl \in Users
    BY InstAssumption DEF RolesOK, FilesOK, Users
  <1>2. /\ at[s] = "relock" /\ at' = [at EXCEPT ![s] = "up"]
        /\ UNCHANGED <<handle, mode, name, ctl>>
    BY DEF Relock, Step
  <1>3. handle[s] \in Files
    BY <1>1, <1>2 DEF FilesOK, HandlesOK, InstTypes, Holding
  <1>4. /\ at'[s] = "up" /\ \A t \in Starts \ {s} : at'[t] = at[t]
    BY <1>1, <1>2
  <1>5. \/ /\ lock[handle[s]] = Nobody /\ lock'[handle[s]] = s /\ text'[handle[s]] = s /\ mishap' = mishap
           /\ \A g \in Files \ {handle[s]} : lock'[g] = lock[g] /\ text'[g] = text[g]
        \/ mishap' \cap {"gap", "ctl"} # {} /\ lock' = lock /\ text' = text
    BY <1>1, <1>3 DEF Relock, InstTypes
  <1>6. InstTypes' /\ mishap \subseteq mishap'
    <2>1. \/ /\ lock' = [lock EXCEPT ![handle[s]] = s] /\ text' = [text EXCEPT ![handle[s]] = s]
             /\ mishap' = mishap
          \/ /\ lock' = lock /\ text' = text
             /\ mishap' = mishap \cup {"ctl"} \/ mishap' = mishap \cup {"gap"}
      BY DEF Relock
    <2>2. lock' \in [Files -> Users \cup {Nobody}]
      BY <1>1, <1>3, <2>1 DEF InstTypes
    <2>3. text' \in [Files -> Starts \cup {Nobody}]
      BY <1>1, <1>3, <2>1 DEF InstTypes
    <2>4. mishap \subseteq mishap' /\ mishap' \subseteq {"fork", "ctl", "gap", "unlink", "emptied"}
      BY <1>1, <2>1 DEF InstTypes
    <2> QED BY <1>1, <1>2, <2>2, <2>3, <2>4 DEF InstTypes
  <1>7. HandlesOK'
    BY <1>1, <1>2, <1>4 DEF FilesOK, HandlesOK, Holding
  <1>8. LocksOK'
    BY <1>1, <1>2, <1>4, <1>5 DEF FilesOK, LocksOK
  <1>9. Calm'
    <2> SUFFICES ASSUME Undisturbed', NEW t \in Starts
                 PROVE  /\ handle[t] \in {0, name}
                        /\ at'[t] = "up" => /\ lock'[name] = t /\ text'[name] \in {t, Nobody}
                                            /\ text'[name] = t \/ "emptied" \in mishap'
      BY <1>2 DEF Calm
    <2>1. Undisturbed
      BY <1>6, CalmBefore
    <2>2. lock[handle[s]] = Nobody /\ lock'[handle[s]] = s /\ text'[handle[s]] = s
      BY <1>5 DEF Undisturbed
    <2>3. handle[s] = name /\ name \in Files
      BY <1>3, <2>1 DEF FilesOK, Calm, InstTypes, Files
    <2>4. t # s => at[t] # "up"
      BY <1>1, <2>1, <2>2, <2>3 DEF FilesOK, Calm
    <2> QED BY <1>4, <2>1, <2>2, <2>3, <2>4 DEF FilesOK, Calm
  <1>10. CtlKnows'
    <2>1. \A t \in ctl.up : t \in Starts /\ t # s /\ at'[t] = at[t]
      BY <1>1, <1>2, <1>4 DEF FilesOK, CtlKnows, InstTypes
    <2> QED BY <1>2, <1>6, <2>1, CalmBefore DEF FilesOK, CtlKnows
  <1>11. CtlIsRight'
    BY <1>2, <1>6, CalmBefore DEF FilesOK, CtlIsRight
  <1> QED BY <1>6, <1>7, <1>8, <1>9, <1>10, <1>11 DEF FilesOK

(* s removes whatever has the name of the pidfile. *)
LEMMA Removes ==
    ASSUME RolesOK, FilesOK, NEW s \in Starts, at[s] = "removing", at' = [at EXCEPT ![s] = "gone"],
           name' = 0, UNCHANGED <<lock, handle, mode, text, ctl>>,
           mishap' = IF name # 0 /\ \E u \in Starts \ {s} : handle[u] = name
                     THEN mishap \cup {"unlink"} ELSE mishap
    PROVE  FilesOK'
  <1>1. at \in [Starts -> Places] /\ InstTypes
    BY DEF RolesOK, FilesOK
  <1>2. at'[s] = "gone" /\ \A t \in Starts \ {s} : at'[t] = at[t]
    BY <1>1
  <1>3. mishap \subseteq mishap' /\ InstTypes'
    BY <1>1 DEF InstTypes
  <1>4. HandlesOK'
    BY <1>2 DEF FilesOK, HandlesOK, Holding
  <1>5. LocksOK'
    BY <1>2 DEF FilesOK, LocksOK
  <1>6. ASSUME Undisturbed', NEW t \in Starts
        PROVE  handle[t] = 0 /\ at'[t] # "up"
    <2>1. Undisturbed
      BY <1>3, <1>6, CalmBefore
    <2>2. ~(name # 0 /\ \E u \in Starts \ {s} : handle[u] = name)
      BY <1>6 DEF Undisturbed
    <2>3. handle[t] \in {0, name} /\ handle[s] = 0
      BY <2>1 DEF FilesOK, Calm, HandlesOK, Holding
    <2>4. handle[t] = 0
      BY <2>2, <2>3
    <2> QED BY <1>2, <2>4 DEF FilesOK, HandlesOK, Holding
  <1>7. Calm'
    BY <1>6 DEF Calm
  <1>8. CtlKnows'
    <2>1. \A t \in ctl.up : t \in Starts /\ at'[t] \in {"up", "removing", "gone"}
      BY <1>1, <1>2 DEF FilesOK, CtlKnows, InstTypes
    <2> QED BY <1>6, <2>1 DEF CtlKnows
  <1>9. CtlIsRight'
    BY <1>3, CalmBefore DEF FilesOK, CtlIsRight
  <1> QED BY <1>3, <1>4, <1>5, <1>7, <1>8, <1>9 DEF FilesOK

(* Without the file a start may go from place to place. *)
LEMMA Wanders ==
    ASSUME RolesOK, FilesOK, NEW s \in Starts, at[s] \notin Holding \cup {"removing", "gone"},
           NEW to \in Places \ Holding, at' = [at EXCEPT ![s] = to],
           mishap' = mishap \/ mishap' = mishap \cup {"fork"},
           mode' \in [Starts -> {"r+", "w+"}], UNCHANGED <<handle, lock, name, text, ctl>>
    PROVE  FilesOK'
  <1>1. InstTypes /\ s \in Users
    BY DEF FilesOK, Users
  <1>2. handle[s] = 0 /\ \A f \in Files : lock[f] # s
    BY DEF FilesOK, HandlesOK, LocksOK, Holding
  <1>3. handle' = [handle EXCEPT ![s] = 0] /\ lock' = [f \in Files |-> IF lock[f] = s THEN Nobody ELSE lock[f]]
    BY <1>1, <1>2 DEF InstTypes
  <1>4. mishap \subseteq mishap' /\ mishap' \subseteq {"fork", "ctl", "gap", "unlink", "emptied"}
    BY <1>1 DEF InstTypes
  <1>5. ~(at[s] \in {"up", "removing", "gone"})
    BY DEF Holding
  <1> QED BY <1>3, <1>4, <1>5, Leaves

(* The steps of a start, one by one. *)
LEMMA DaemonizeKeeps ==
    ASSUME RolesOK, FilesOK, NEW s \in Starts,
           Fork(s) \/ ParentExits(s) \/ SetsidAndFork(s) \/ Foreground(s) \/ Stat(s)
    PROVE  FilesOK'
  <1>1. InstTypes
    BY DEF FilesOK
  <1>2. ASSUME UNCHANGED <<pidVars, at, ctl, mishap>> PROVE FilesOK'
    BY <1>2 DEF pidVars, FilesOK, InstTypes, HandlesOK, LocksOK, Calm, Undisturbed, CtlKnows, CtlIsRight
  <1>3. ASSUME NEW to \in {"bare", "stat", "gone"}, Step(s, "new", to), UNCHANGED <<pidVars, ctl>>,
               mishap' = mishap \/ mishap' = mishap \cup {"fork"}
        PROVE  FilesOK'
    BY <1>1, <1>3, Wanders DEF Step, pidVars, Places, Holding, InstTypes
  <1>4. ASSUME Stat(s) PROVE FilesOK'
    <2>1. mode' \in [Starts -> {"r+", "w+"}]
      BY <1>1, <1>4 DEF Stat, InstTypes
    <2> QED BY <1>4, <2>1, Wanders DEF Stat, Step, Places, Holding
  <1>5. ASSUME Fork(s) PROVE FilesOK'
    BY <1>2, <1>3, <1>5 DEF Fork
  <1>6. ASSUME ParentExits(s) PROVE FilesOK'
    BY <1>2, <1>6 DEF ParentExits
  <1>7. ASSUME SetsidAndFork(s) PROVE FilesOK'
    BY <1>3, <1>7 DEF SetsidAndFork
  <1>8. ASSUME Foreground(s) PROVE FilesOK'
    BY <1>3, <1>8 DEF Foreground
  <1> QED BY <1>4, <1>5, <1>6, <1>7, <1>8

(* "w+" creates the file or empties it. *)
LEMMA OpenWTakes ==
    ASSUME RolesOK, FilesOK, NEW s \in Starts, NEW to \in {"lock", "relock"},
           at[s] \in {"open", "reopen"}, at' = [at EXCEPT ![s] = to], OpenW(s),
           UNCHANGED <<mode, lock, ctl>>
    PROVE  FilesOK'
  <1>1. PICK f : f = IF name = 0 THEN FreshFile ELSE name
    OBVIOUS
  <1>2. /\ name' = f /\ handle' = [handle EXCEPT ![s] = f] /\ text' = [text EXCEPT ![f] = Nobody]
        /\ mishap' = IF name # 0 /\ lock[f] \in Starts THEN mishap \cup {"emptied"} ELSE mishap
    BY <1>1 DEF OpenW
  <1>3. InstTypes /\ handle[s] = 0
    BY DEF FilesOK, HandlesOK, Holding
  <1>4. f \in Files /\ (f = name \/ (name = 0 /\ \A u \in Users : f # handle[u]))
    <2>1. CASE name = 0
      BY <1>1, <1>3, <2>1, FileIsFresh
    <2>2. CASE name # 0
      BY <1>1, <1>3, <2>2 DEF InstTypes
    <2> QED BY <2>1, <2>2
  <1>5. mishap \subseteq mishap' /\ mishap' \subseteq mishap \cup {"emptied"}
    BY <1>2
  <1>6. text' # text /\ name # 0 /\ lock[f] \in Starts => "emptied" \in mishap'
    BY <1>2
  <1> QED BY <1>2, <1>4, <1>5, <1>6, Takes

(* The steps on the pidfile are of those kinds. *)
LEMMA PidfileKeeps ==
    ASSUME RolesOK, FilesOK, NEW s \in Starts,
           Open(s) \/ Lock(s) \/ Reopen(s) \/ Relock(s) \/ RemovePidfile(s) \/ Exits(s)
    PROVE  FilesOK'
  <1>1. InstTypes /\ s \in Users /\ mode \in [Starts -> {"r+", "w+"}] /\ 0 \notin Files
        /\ mishap \subseteq {"fork", "ctl", "gap", "unlink", "emptied"}
    BY DEF FilesOK, Users, InstTypes, Files
  <1>2. ASSUME Open(s) PROVE FilesOK'
    <2>1. at[s] = "open"
      BY <1>2 DEF Open, Step
    <2>2. CASE OpenW(s) /\ Step(s, "open", "lock")
      BY <1>2, <2>1, <2>2, OpenWTakes DEF Open, Step
    <2>3. CASE /\ name # 0 /\ handle' = [handle EXCEPT ![s] = name]
               /\ Step(s, "open", "lock") /\ UNCHANGED <<name, text, mishap>>
      <3>1. name \in Files
        BY <1>1, <2>3 DEF InstTypes
      <3> QED BY <1>2, <2>1, <2>3, <3>1, Takes DEF Open, Step
    <2>4. CASE name = 0 /\ Step(s, "open", "quit") /\ UNCHANGED <<handle, name, text, mishap>>
      BY <1>1, <1>2, <2>4, Wanders DEF Open, Step, Places, Holding
    <2> QED BY <1>2, <2>2, <2>3, <2>4 DEF Open
  <1>3. ASSUME Lock(s) PROVE FilesOK'
    <2>1. at[s] = "lock" /\ UNCHANGED <<role, mode, name, text, ctl>>
      BY <1>3 DEF Lock
    <2>2. CASE lock[handle[s]] = Nobody
      BY <1>3, <2>1, <2>2, Locks DEF Lock, Step
    <2>3. CASE lock[handle[s]] # Nobody
      <3>1. /\ at' = [at EXCEPT ![s] = "quit"] /\ handle' = [handle EXCEPT ![s] = 0] /\ lock' = lock
            /\ mishap' = mishap \/ mishap' = mishap \cup {"ctl"}
        BY <1>3, <2>3 DEF Lock, Step
      <3>2. \A f \in Files : lock[f] # s
        BY <2>1 DEF FilesOK, LocksOK
      <3>3. lock' = [f \in Files |-> IF lock[f] = s THEN Nobody ELSE lock[f]]
        BY <1>1, <3>1, <3>2 DEF InstTypes
      <3>4. mishap \subseteq mishap' /\ mishap' \subseteq {"fork", "ctl", "gap", "unlink", "emptied"}
        BY <1>1, <3>1
      <3> QED BY <1>1, <2>1, <3>1, <3>3, <3>4, Leaves DEF Places, Holding
    <2> QED BY <2>2, <2>3
  <1>4. ASSUME Reopen(s) PROVE FilesOK'
    <2>1. CASE Step(s, "close", "reopen")
      <3>1. /\ lock' = [f \in Files |-> IF lock[f] = s THEN Nobody ELSE lock[f]]
            /\ handle' = [handle EXCEPT ![s] = 0] /\ UNCHANGED <<name, text, mishap, mode, ctl>>
            /\ at[s] = "close" /\ at' = [at EXCEPT ![s] = "reopen"]
        BY <1>4, <2>1 DEF Reopen, Step
      <3> QED BY <1>1, <3>1, Leaves DEF Places, Holding
    <2>2. CASE Step(s, "reopen", "relock") /\ OpenW(s) /\ UNCHANGED lock
      BY <1>4, <2>2, OpenWTakes DEF Reopen, Step
    <2> QED BY <1>4, <2>1, <2>2 DEF Reopen
  <1>5. ASSUME Relock(s) PROVE FilesOK'
    BY <1>5, Rises
  <1>6. ASSUME RemovePidfile(s) PROVE FilesOK'
    <2>1. CASE Step(s, "up", "removing")
      <3>1. /\ lock' = [f \in Files |-> IF lock[f] = s THEN Nobody ELSE lock[f]]
            /\ handle' = [handle EXCEPT ![s] = 0] /\ UNCHANGED <<name, text, mishap, mode, ctl>>
            /\ at[s] = "up" /\ at' = [at EXCEPT ![s] = "removing"]
        BY <1>6, <2>1 DEF RemovePidfile, Step
      <3> QED BY <1>1, <3>1, Leaves DEF Places, Holding
    <2>2. CASE Step(s, "removing", "gone")
      <3>1. /\ at[s] = "removing" /\ at' = [at EXCEPT ![s] = "gone"]
            /\ name' = 0 /\ UNCHANGED <<lock, handle, mode, text, ctl>>
            /\ mishap' = IF name # 0 /\ \E u \in Starts \ {s} : handle[u] = name
                         THEN mishap \cup {"unlink"} ELSE mishap
        BY <1>6, <2>2 DEF RemovePidfile, Step
      <3> QED BY <3>1, Removes
    <2> QED BY <1>6, <2>1, <2>2 DEF RemovePidfile
  <1>7. ASSUME Exits(s) PROVE FilesOK'
    <2>1. /\ at' = [at EXCEPT ![s] = "gone"]
          /\ lock' = [f \in Files |-> IF lock[f] = s THEN Nobody ELSE lock[f]]
          /\ handle' = [handle EXCEPT ![s] = 0] /\ UNCHANGED <<mode, name, text, ctl, mishap>>
      BY <1>7 DEF Exits, Step
    <2> QED BY <1>1, <2>1, Leaves DEF Places, Holding
  <1> QED BY <1>2, <1>3, <1>4, <1>5, <1>6, <1>7

(* prosodyctl looks at the pidfile: as it finds it, *)
LEMMA GetPidKeeps ==
    ASSUME RolesOK, FilesOK, GetPid
    PROVE  FilesOK'
  <1>1. /\ at \in [Starts -> Places] /\ InstTypes /\ Nobody \notin Starts /\ Nobody # Ctl
        /\ Ctl \notin Starts /\ Ctl \in Users /\ "-" \notin Starts /\ "down" \notin Starts /\ 0 \notin Files
    BY InstAssumption DEF RolesOK, FilesOK, Users, Files
  <1>2. UNCHANGED <<role, at, mode, name, text, mishap>> /\ (Undisturbed' <=> Undisturbed) /\ Up \in SUBSET Starts
    BY DEF GetPid, Undisturbed, Up
  <1>3. ASSUME Undisturbed, NEW t \in Starts, at[t] = "up"
        PROVE  name \in Files /\ handle[t] = name /\ lock[name] = t /\ text[name] \in {t, Nobody}
    BY <1>1, <1>3 DEF FilesOK, HandlesOK, Calm, Holding, InstTypes
  <1>4. CASE ctl.at = "idle" /\ name # 0 /\ handle' = [handle EXCEPT ![Ctl] = name]
             /\ ctl' = [at |-> "lock", says |-> "-", up |-> Up] /\ lock' = lock
    <2>1. ctl'.at = "lock" /\ ctl'.says = "-" /\ ctl'.up = Up
      BY <1>4
    <2>2. handle'[Ctl] = name /\ \A t \in Starts : handle'[t] = handle[t]
      BY <1>1, <1>4 DEF InstTypes, Users
    <2>3. InstTypes'
      BY <1>1, <1>2, <1>4 DEF InstTypes
    <2>4. HandlesOK' /\ LocksOK'
      BY <1>1, <1>2, <1>4, <2>1, <2>2 DEF FilesOK, HandlesOK, LocksOK
    <2>5. Calm'
      BY <1>2, <1>4, <2>2 DEF FilesOK, Calm
    <2>6. CtlKnows'
      BY <1>2, <2>1, <2>2 DEF CtlKnows, Up
    <2>7. CtlIsRight'
      BY <1>1, <2>1 DEF CtlIsRight
    <2> QED BY <2>3, <2>4, <2>5, <2>6, <2>7 DEF FilesOK
  <1>5. CASE ctl.at = "idle" /\ name = 0 /\ ctl' = [at |-> "idle", says |-> "down", up |-> Up]
             /\ UNCHANGED <<handle, lock>>
    <2>1. ctl'.at = "idle" /\ ctl'.says = "down" /\ ctl'.up = Up
      BY <1>5
    <2>2. InstTypes'
      BY <1>1, <1>2, <1>5 DEF InstTypes
    <2>3. HandlesOK' /\ LocksOK' /\ Calm'
      BY <1>2, <1>5, <2>1 DEF FilesOK, HandlesOK, LocksOK, Calm
    <2>4. CtlKnows'
      BY <1>2, <2>1 DEF CtlKnows, Up
    <2>5. Undisturbed => Up = {}
      BY <1>1, <1>3, <1>5 DEF Up
    <2>6. CtlIsRight'
      BY <1>1, <1>2, <2>1, <2>5 DEF CtlIsRight
    <2> QED BY <2>2, <2>3, <2>4, <2>6 DEF FilesOK
  (* and what it says when it knows whether the file is locked. *)
  <1>6. ASSUME ctl.at = "lock", Undisturbed, NEW t \in ctl.up \cap Up
        PROVE  handle[Ctl] = name /\ lock[handle[Ctl]] = t /\ text[handle[Ctl]] \in {t, Nobody}
    <2>1. t \in Starts /\ at[t] = "up"
      BY <1>6 DEF Up
    <2> QED BY <1>3, <1>6, <2>1 DEF FilesOK, CtlKnows
  <1>7. handle[Ctl] # 0 => handle[Ctl] \in Files
    BY <1>1 DEF InstTypes
  <1>8. CASE ctl.at = "lock" /\ lock[handle[Ctl]] = Nobody /\ CtlSays("down")
             /\ lock' = [lock EXCEPT ![handle[Ctl]] = Ctl] /\ handle' = handle
    <2>1. ctl'.at = "close" /\ ctl'.says = "down" /\ ctl'.up = ctl.up \cap Up
      BY <1>8 DEF CtlSays
    <2>2. handle[Ctl] \in Files
      BY <1>7, <1>8 DEF FilesOK, HandlesOK
    <2>3. lock'[handle[Ctl]] = Ctl /\ \A g \in Files \ {handle[Ctl]} : lock'[g] = lock[g]
      BY <1>1, <1>8, <2>2 DEF InstTypes
    <2>4. InstTypes'
      BY <1>1, <1>2, <1>8, <2>2 DEF InstTypes, CtlSays
    <2>5. HandlesOK'
      BY <1>2, <1>8, <2>1 DEF FilesOK, HandlesOK
    <2>6. LocksOK'
      BY <1>1, <1>2, <1>8, <2>1, <2>3 DEF FilesOK, LocksOK
    <2>7. Calm'
      <3>1. ASSUME Undisturbed, NEW t \in Starts, at[t] = "up" PROVE lock'[name] = t
        BY <1>1, <1>3, <1>8, <2>3, <3>1
      <3> QED BY <1>2, <1>8, <3>1 DEF FilesOK, Calm
    <2>8. CtlKnows'
      BY <1>2, <2>1 DEF CtlKnows, Up
    <2>9. Undisturbed => ctl.up \cap Up = {}
      BY <1>1, <1>2, <1>6, <1>8
    <2>10. CtlIsRight'
      BY <1>1, <1>2, <2>1, <2>9 DEF CtlIsRight
    <2> QED BY <2>4, <2>5, <2>6, <2>7, <2>8, <2>10 DEF FilesOK
  <1>9. CASE ctl.at = "lock" /\ lock[handle[Ctl]] # Nobody
             /\ CtlSays(text[handle[Ctl]]) /\ UNCHANGED <<handle, lock>>
    <2>1. ctl'.at = "close" /\ ctl'.says = text[handle[Ctl]] /\ ctl'.up = ctl.up \cap Up
      BY <1>9 DEF CtlSays
    <2>2. handle[Ctl] \in Files
      BY <1>7, <1>9 DEF FilesOK, HandlesOK
    <2>3. InstTypes'
      BY <1>1, <1>2, <1>9, <2>2 DEF InstTypes, CtlSays
    <2>4. HandlesOK' /\ LocksOK' /\ Calm'
      BY <1>2, <1>9, <2>1 DEF FilesOK, HandlesOK, LocksOK, Calm
    <2>5. CtlKnows'
      BY <1>2, <2>1 DEF CtlKnows, Up
    <2>6. CtlIsRight'
      <3>1. text[handle[Ctl]] \in Starts \cup {Nobody}
        BY <1>1, <2>2 DEF InstTypes
      <3>2. text[handle[Ctl]] # "down"
        BY <3>1, InstAssumption
      <3>3. Undisturbed /\ text[handle[Ctl]] \in Starts => ctl.up \cap Up \subseteq {text[handle[Ctl]]}
        BY <1>1, <1>6, <1>9
      <3> QED BY <1>2, <2>1, <3>2, <3>3 DEF CtlIsRight
    <2> QED BY <2>3, <2>4, <2>5, <2>6 DEF FilesOK
  <1>10. CASE /\ ctl.at = "close" /\ lock' = [f \in Files |-> IF lock[f] = Ctl THEN Nobody ELSE lock[f]]
              /\ handle' = [handle EXCEPT ![Ctl] = 0] /\ ctl' = [ctl EXCEPT !.at = "idle"]
    <2>1. ctl'.at = "idle" /\ ctl'.says = ctl.says /\ ctl'.up = ctl.up
      BY <1>1, <1>10 DEF InstTypes
    <2>2. /\ handle'[Ctl] = 0 /\ \A t \in Starts : handle'[t] = handle[t]
          /\ \A f \in Files : lock'[f] = IF lock[f] = Ctl THEN Nobody ELSE lock[f]
      BY <1>1, <1>10 DEF InstTypes, Users
    <2>3. InstTypes'
      BY <1>1, <1>2, <1>10 DEF InstTypes
    <2>4. HandlesOK'
      BY <1>2, <2>1, <2>2 DEF FilesOK, HandlesOK
    <2>5. LocksOK'
      BY <1>1, <1>2, <2>1, <2>2 DEF FilesOK, LocksOK
    <2>6. Calm'
      <3>1. ASSUME Undisturbed, NEW t \in Starts, at[t] = "up" PROVE lock'[name] = t
        BY <1>1, <1>3, <2>2, <3>1
      <3> QED BY <1>2, <2>2, <3>1 DEF FilesOK, Calm
    <2>7. CtlKnows' /\ CtlIsRight'
      BY <1>2, <2>1 DEF FilesOK, CtlKnows, CtlIsRight
    <2> QED BY <2>3, <2>4, <2>5, <2>6, <2>7 DEF FilesOK
  <1> QED BY <1>4, <1>5, <1>8, <1>9, <1>10 DEF GetPid

(* Every step keeps the invariant. *)
LEMMA InstStep ==
    ASSUME InstInv, [InstNext]_instVars
    PROVE  InstInv'
  <1>1. RolesOK /\ FilesOK
    BY DEF InstInv
  <1>2. RolesOK'
    BY <1>1, RolesStep
  <1>3. FilesOK'
    <2>1. CASE UNCHANGED instVars
      BY <1>1, <2>1 DEF instVars, FilesOK, InstTypes, HandlesOK, LocksOK, Calm, CtlKnows, CtlIsRight, Undisturbed
    <2>2. CASE GetPid
      BY <1>1, <2>2, GetPidKeeps
    <2>3. ASSUME NEW s \in Starts,
                 Fork(s) \/ ParentExits(s) \/ SetsidAndFork(s) \/ Foreground(s) \/ Stat(s)
          PROVE  FilesOK'
      BY <1>1, <2>3, DaemonizeKeeps
    <2>4. ASSUME NEW s \in Starts,
                 Open(s) \/ Lock(s) \/ Reopen(s) \/ Relock(s) \/ RemovePidfile(s) \/ Exits(s)
          PROVE  FilesOK'
      BY <1>1, <2>4, PidfileKeeps
    <2> QED BY <2>1, <2>2, <2>3, <2>4 DEF InstNext
  <1> QED BY <1>2, <1>3 DEF InstInv

(* Before the first start there is no pidfile. *)
LEMMA InstStarts ==
    ASSUME InstInit
    PROVE  InstInv
  <1>1. RolesOK
    <2> DEFINE first == [parent |-> "starting", child |-> "none", daemon |-> "none"]
    <2>1. first \in [parent : Roles, child : Roles, daemon : Roles] /\ RoleOK(first, "new")
      BY DEF Roles, RoleOK
    <2>2. role = [s \in Starts |-> first] /\ at = [s \in Starts |-> "new"]
      BY DEF InstInit
    <2> HIDE DEF first
    <2> QED BY <2>1, <2>2 DEF RolesOK, Places
  <1>2. InstTypes
    BY DEF InstInit, InstTypes
  <1>3. HandlesOK /\ LocksOK
    BY InstAssumption DEF InstInit, HandlesOK, LocksOK, Holding, Users
  <1>4. Calm /\ CtlKnows /\ CtlIsRight
    BY InstAssumption DEF InstInit, Calm, CtlKnows, CtlIsRight, Users
  <1> QED BY <1>1, <1>2, <1>3, <1>4 DEF InstInv, FilesOK

(* The processes that are alive are counted by RoleOK. *)
LEMMA OneIsAlive ==
    ASSUME RolesOK
    PROVE  OneContinues
  <1> SUFFICES ASSUME NEW s \in Starts
               PROVE  LET alive == {p \in {"parent", "child", "daemon"} : role[s][p] \in {"starting", "serving"}}
                      IN  IF at[s] = "gone" THEN alive = {} ELSE Cardinality(alive) = 1
    BY DEF OneContinues
  <1> DEFINE alive == {p \in {"parent", "child", "daemon"} : role[s][p] \in {"starting", "serving"}}
  <1>1. PICK r : r = role[s] /\ RoleOK(r, at[s])
    BY DEF RolesOK
  <1>2. alive = {p \in {"parent", "child", "daemon"} : r[p] \in {"starting", "serving"}}
    BY <1>1
  <1>3. CASE at[s] = "gone"
    <2>1. r.parent \in Idle /\ r.child \in Idle /\ r.daemon \in Idle
      BY <1>1, <1>3 DEF RoleOK
    <2> QED BY <1>2, <1>3, <2>1 DEF Idle
  <1>4. CASE at[s] # "gone"
    <2>1. \E p \in {"parent", "child", "daemon"} :
              /\ r[p] \in {"starting", "serving"}
              /\ \A q \in {"parent", "child", "daemon"} \ {p} : r[q] \in Idle
      <3>1. CASE at[s] = "new"
        BY <1>1, <3>1 DEF RoleOK, Idle
      <3>2. CASE at[s] # "new"
        BY <1>1, <1>4, <3>2 DEF RoleOK
      <3> QED BY <3>1, <3>2
    <2>2. PICK p \in {"parent", "child", "daemon"} : alive = {p}
      BY <1>2, <2>1 DEF Idle
    <2>3. Cardinality(alive) = 1
      BY <2>2, FS_Singleton
    <2> QED BY <1>4, <2>3
  <1> QED BY <1>3, <1>4

(* As long as nothing went wrong, a start that is up has the lock on the    *)
(* file under the name.                                                     *)
LEMMA UpHasTheName ==
    ASSUME InstInv, Undisturbed, NEW s \in Starts, at[s] = "up"
    PROVE  name # 0 /\ lock[name] = s /\ (text[name] = s \/ "emptied" \in mishap)
  BY DEF InstInv, FilesOK, HandlesOK, Calm, Holding

(* OneServer: daemonize (pposix.c:86-132) leaves one process of a start to  *)
(* serve, and write_pidfile (mod_posix.lua:73-114) one start, whatever      *)
(* number of starts overlap, until one of the named mishaps; a lock is only *)
(* held on the file that is open, and a start writes only its own pid.      *)
THEOREM OneServerHolds == InstSpec => []OneServer
  <1>1. InstInit => InstInv
    BY InstStarts
  <1>2. InstInv /\ [InstNext]_instVars => InstInv'
    BY InstStep
  <1>3. InstInv => OneServer
    <2> SUFFICES ASSUME InstInv PROVE OneServer
      OBVIOUS
    <2>1. InstTypeOK
      <3>1. InstTypes /\ LocksOK
        BY DEF InstInv, FilesOK
      <3>2. \A f \in Files : lock[f] # Nobody => handle[lock[f]] = f
        BY <3>1 DEF InstTypes, LocksOK, Users
      <3> QED BY <3>1, <3>2 DEF InstTypes, InstTypeOK
    <2>2. OneContinues
      BY OneIsAlive DEF InstInv
    <2>3. OneInstance
      BY UpHasTheName DEF OneInstance
    <2> QED BY <2>1, <2>2, <2>3 DEF OneServer
  <1> QED BY <1>1, <1>2, <1>3, PTL DEF InstSpec

(* ServerFound: the server that is up can be found under the name of the    *)
(* pidfile, and what getpid and isrunning of prosodyctl                     *)
(* (prosodyctl.lua:181-230) say of it is right, until one of the mishaps.   *)
THEOREM ServerFoundHolds == InstSpec => []ServerFound
  <1>1. InstInit => InstInv
    BY InstStarts
  <1>2. InstInv /\ [InstNext]_instVars => InstInv'
    BY InstStep
  <1>3. InstInv => ServerFound
    BY UpHasTheName DEF InstInv, FilesOK, ServerFound, Findable
  <1> QED BY <1>1, <1>2, <1>3, PTL DEF InstSpec
=============================================================================
