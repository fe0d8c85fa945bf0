----------------------------- MODULE Lifecycle ------------------------------
(***************************************************************************)
(* The life of nbstftp processes: main's start-up and clean-up, the PID    *)
(* file, the change of user and group, the fork, the signal handler and    *)
(* the configuration it exchanges.  Several processes may be started; they *)
(* share PID files and the addresses they bind to.                         *)
(*                                                                         *)
(* A process goes through the labels                                       *)
(*   parse  pidcheck [pidstale] pidopen pidwrite  sockets  user  fork      *)
(*   loop  close  unlink      and, for the parent after a fork, leave      *)
(* and ends as "stopped" (main returned), "refused" (another daemon is     *)
(* already running), "left" (the parent after a fork) or "dead".           *)
(* What the event loop does is in Server.                                  *)
(***************************************************************************)
EXTENDS Naturals, Sequences, SequencesExt

CONSTANTS
    StartPids,      \* process ids of started processes, and
    ForkPids,       \* of their children; each is used once
    Account,        \* names of users and of groups; "root" is one
    PrimaryGroup,   \* [Account -> Account]: the group of a user's password entry
    Starters,       \* the users who start the program
    Paths,          \* paths of PID files
    DefaultPidfile, \* the path used when none is configured
    OpenPaths,      \* paths in directories everyone may write to
    ConfFiles,      \* what the administrator may put in place as configuration
    OtherFiles,     \* [names -> files]: configurations elsewhere, for option -c
    CommandLines,   \* sequences of arguments the program may be started with
    SignalAt        \* labels at which SIGHUP and SIGKILL may arrive

Pids == StartPids \union ForkPids

\* A configuration file that cannot be opened, one with a syntax error, or one
\* with the given blocks, in their order, and settings of its server block.
Missing == [form |-> "missing"]
Broken  == [form |-> "broken"]
ReadableFiles ==
    [form : {"good"}, blocks : Seq({"server", "listen"}), directory : BOOLEAN, daemonize : BOOLEAN,
     user : Account \union {"none"}, group : Account \union {"none"},
     pidfile : Paths \union {"unset"}]

ASSUME LifecycleAssumption ==
    /\ Pids \subseteq Nat \ {0} /\ StartPids \intersect ForkPids = {}
    /\ "root" \in Account /\ "none" \notin Account /\ Starters \subseteq Account
    /\ PrimaryGroup \in [Account -> Account]
    /\ DefaultPidfile \in Paths /\ OpenPaths \subseteq Paths /\ "unset" \notin Paths
    /\ \A f \in ConfFiles \union Range(OtherFiles) : f \in {Missing, Broken} \union ReadableFiles
    /\ CommandLines \subseteq Seq(STRING)

VARIABLES
    proc,       \* [Pids -> process]
    conffile,   \* the configuration file in the default place
    pidfile     \* [Paths -> [ino, text]]: ino tells one file from a later one
                \* of the same name, text is the number in it

lvars == <<proc, conffile, pidfile>>

Absent == [ino |-> 0, text |-> 0]

Ends   == {"stopped", "refused", "left", "dead"}
Starts == {"parse", "pidcheck", "pidstale", "pidopen", "pidwrite", "sockets", "user", "fork"}
Live(p) == proc[p].pc \notin Ends \union {"unborn"}

\* A process without memory, descriptors or identity.
NoConfig == [st |-> "none"]
Unborn == [pc |-> "unborn", configfile |-> "default", config |-> NoConfig,
           running |-> TRUE, fg |-> FALSE,
           uid |-> "root", gid |-> "root", path |-> "unset", ino |-> 0,
           bound |-> FALSE]
Ended(end) == [Unborn EXCEPT !.pc = end]

Become(p, state) == proc' = [proc EXCEPT ![p] = state]
Goto(p, label) == Become(p, [proc[p] EXCEPT !.pc = label])

\* exit or a fatal signal: the kernel closes the sockets, nothing else is done.
Die(p, end) == Become(p, Ended(end))

\* An unused process id, the least of pids.
NextPid(pids, p) ==
    /\ p \in pids /\ proc[p].pc = "unborn"
    /\ \A q \in pids : q < p => proc[q].pc # "unborn"

-----------------------------------------------------------------------------
(***************************************************************************)
(* The configuration.  st says what the global pointer config points to:   *)
(* nothing, the object main parsed, one parsed later, or freed memory.     *)
(***************************************************************************)
\* server_entry: always a new object.
ServerEntry(f) ==
    [st |-> "new", directory |-> f.directory, user |-> f.user, group |-> f.group,
     daemonize |-> f.daemonize, pidfile |-> f.pidfile, listens |-> FALSE]

\* listen_entry: added to the object there is, if need be a new one.
ListenEntry(c) ==
    IF c = NoConfig
    THEN [st |-> "new", directory |-> FALSE, user |-> "none", group |-> "none",
          daemonize |-> TRUE, pidfile |-> "unset", listens |-> TRUE]
    ELSE [c EXCEPT !.listens = TRUE]

\* All entries, in their order: a server entry leaves behind what earlier listen
\* entries were added to.
Parsed(c, f) ==
    LET at(kind) == {i \in 1..Len(f.blocks) : f.blocks[i] = kind}
        d == IF at("server") = {} THEN c ELSE ServerEntry(f)
    IN  IF \E i \in at("listen") : \A j \in at("server") : j < i THEN ListenEntry(d) ELSE d

Usable(c) == c # NoConfig /\ c.directory

\* Mutant: the default of the PID file is forgotten.
ParseConfigNoDefault(c, f) == Parsed(c, f)

\* ParseConfig of a file that has no syntax error; it fails unless Usable.
ParseConfig(c, f) ==
    LET d == Parsed(c, f)
    IN  IF Usable(d) /\ d.pidfile = "unset" THEN [d EXCEPT !.pidfile = DefaultPidfile] ELSE d

(***************************************************************************)
(* DeallocateConfig of the object config pointed to before a rehash.  It   *)
(* empties the lists of the object config points to now; both are the same *)
(* object when the file has no server block.                               *)
(***************************************************************************)
Deallocated(new, sameobject) ==
    [new EXCEPT !.listens = FALSE, !.st = IF sameobject THEN "freed" ELSE @]

\* What the SIGHUP handler leaves of a process.
Rehashed(state, f) ==
    CASE f = Missing -> state
      [] f = Broken  -> Ended("dead")
      [] OTHER ->
           LET old == state.config
               new == ParseConfig(old, f)
           IN  IF ~Usable(new) THEN [state EXCEPT !.config = new]
               ELSE IF old = NoConfig THEN Ended("dead")
               ELSE [state EXCEPT !.config =
                        Deallocated(new, "server" \notin Range(f.blocks))]

\* What configfile names, with def in the default place.
FileNamed(name, def) ==
    IF name = "default" THEN def
    ELSE IF name \in DOMAIN OtherFiles THEN OtherFiles[name] ELSE Missing

-----------------------------------------------------------------------------
(***************************************************************************)
(* main, in its order.                                                     *)
(***************************************************************************)
(***************************************************************************)
(* HandleArguments.  "-h" stands for the options that print something and  *)
(* exit, and for unknown ones.  Once there was a -c, every later word that *)
(* is not an option names the configuration.                               *)
(***************************************************************************)
Options == {"-h", "-f", "-c"}

HandleArguments(args) ==
    LET at(option) == {i \in 1..Len(args) : args[i] = option}
        names == {i \in 1..Len(args) : args[i] \notin Options /\ \E j \in at("-c") : j < i}
    IN  [exit |-> at("-h") # {} \/ Len(args) \in at("-c"),
         nofork |-> at("-f") # {},
         configfile |-> IF names = {} THEN "default" ELSE args[Max(names)]]

LInit ==
    /\ proc = [p \in Pids |-> Unborn]
    /\ conffile \in ConfFiles
    /\ pidfile = [path \in Paths |-> Absent]

\* Someone starts the program.  Without a terminal it stays in the foreground,
\* as with -f.
Start(p, who, args) ==
    /\ NextPid(StartPids, p)
    /\ LET a == HandleArguments(args)
       IN  IF a.exit THEN Die(p, "dead")
           ELSE Become(p, [Unborn EXCEPT !.pc = "parse", !.uid = who, !.gid = PrimaryGroup[who],
                              !.configfile = a.configfile, !.fg = a.nofork])
    /\ UNCHANGED <<conffile, pidfile>>

StartParse(p) ==
    /\ proc[p].pc = "parse"
    /\ LET f == FileNamed(proc[p].configfile, conffile)
           c == ParseConfig(proc[p].config, f)
       IN  IF f \notin {Missing, Broken} /\ Usable(c)
           THEN Become(p, [proc[p] EXCEPT !.pc = "pidcheck", !.config = [c EXCEPT !.st = "first"]])
           ELSE Die(p, "dead")
    /\ UNCHANGED <<conffile, pidfile>>

Path(p) == proc[p].config.pidfile

\* What the name of the PID file denotes; nothing, if there is no name.
FileAt(path) == IF path \in Paths THEN pidfile[path] ELSE Absent

\* Creating, truncating and removing a PID file.
MayWrite(p) == Path(p) \in Paths /\ (proc[p].uid = "root" \/ Path(p) \in OpenPaths)

\* Mutant: any number in the file counts.
RunningAny(p, n) == n \in Pids \union {0}

\* kill(n, 0) of p succeeds: a process n exists which p may signal.  An empty
\* file reads as 0, the caller's own process group.
Running(p, n) ==
    \/ n = 0
    \/ n \in Pids /\ Live(n) /\ proc[p].uid \in {"root", proc[n].uid}

CheckPid(p) ==
    /\ proc[p].pc = "pidcheck"
    /\ IF FileAt(Path(p)) = Absent THEN Goto(p, "pidopen")
       ELSE IF Running(p, FileAt(Path(p)).text) THEN Die(p, "refused")
       ELSE Goto(p, "pidstale")
    /\ UNCHANGED <<conffile, pidfile>>

\* unlink removes the file of that name, which may be a newer one by now.
RemoveStale(p) ==
    /\ proc[p].pc = "pidstale"
    /\ pidfile' = IF MayWrite(p) THEN [pidfile EXCEPT ![Path(p)] = Absent] ELSE pidfile
    /\ Goto(p, "pidopen")
    /\ UNCHANGED conffile

\* fopen for writing creates the file or empties the one there is.
OpenPid(p) ==
    /\ proc[p].pc = "pidopen"
    /\ IF MayWrite(p)
       THEN LET old == pidfile[Path(p)].ino
                ino == IF old = 0 THEN p ELSE old
            IN  /\ pidfile' = [pidfile EXCEPT ![Path(p)] = [ino |-> ino, text |-> 0]]
                /\ Become(p, [proc[p] EXCEPT !.pc = "pidwrite", !.path = Path(p), !.ino = ino])
       ELSE Goto(p, "sockets") /\ UNCHANGED pidfile
    /\ UNCHANGED conffile

\* The number reaches the file that was opened, if it still has its name.
WritePid(p) ==
    /\ proc[p].pc = "pidwrite"
    /\ LET path == proc[p].path
       IN  pidfile' = IF pidfile[path].ino = proc[p].ino
                      THEN [pidfile EXCEPT ![path].text = p] ELSE pidfile
    /\ Goto(p, "sockets")
    /\ UNCHANGED conffile

\* Mutant: main goes on without a socket.
InitializeSocketsAnyway(p, ok) ==
    /\ proc[p].pc = "sockets"
    /\ ok => proc[p].config.listens /\ \A q \in Pids : ~proc[q].bound
    /\ Become(p, [proc[p] EXCEPT !.pc = "user", !.bound = ok])
    /\ UNCHANGED <<conffile, pidfile>>

\* ok: some listen block could be bound.  The kernel gives an address to one
\* process only; otherwise die.
InitializeSockets(p, ok) ==
    /\ proc[p].pc = "sockets"
    /\ ok => proc[p].config.listens /\ \A q \in Pids : ~proc[q].bound
    /\ IF ok THEN Become(p, [proc[p] EXCEPT !.pc = "user", !.bound = TRUE])
             ELSE Die(p, "dead")
    /\ UNCHANGED <<conffile, pidfile>>

\* setuid and setgid succeed for root, and for what one already is.
MaySet(uid, now, new) == new = "none" \/ uid = "root" \/ now = new
Set(now, new) == IF new = "none" THEN now ELSE new

\* The group to set: a group of the user's own name is not looked up, what the
\* password entry says is taken for it.
TargetGroup(c) ==
    IF c.group = c.user /\ c.user # "none" THEN PrimaryGroup[c.user] ELSE c.group

\* Mutant: the result of setgid is not looked at.
SwitchUserAndGroupOnly(p, userknown, groupknown, access) ==
    /\ proc[p].pc = "user"
    /\ LET s  == proc[p]
           c  == s.config
           ok == (c.user = "none" \/ userknown) /\ MaySet(s.uid, s.uid, c.user)
           s2 == IF ok THEN [s EXCEPT !.uid = Set(@, c.user)] ELSE s
           s3 == IF ok /\ MaySet(s2.uid, s2.gid, TargetGroup(c))
                 THEN [s2 EXCEPT !.gid = Set(@, TargetGroup(c))] ELSE s2
       IN  Become(p, [s3 EXCEPT !.pc = IF ok /\ access THEN "fork" ELSE "close"])
    /\ UNCHANGED <<conffile, pidfile>>

(***************************************************************************)
(* SwitchUserAndGroup: the user first, then the group, which only root may *)
(* set; then a test of the directory, unless user and group have the same  *)
(* name.  userknown, groupknown: the system knows the names; access: the   *)
(* directory can be read or written.                                       *)
(***************************************************************************)
SwitchUserAndGroup(p, userknown, groupknown, access) ==
    /\ proc[p].pc = "user"
    /\ LET s  == proc[p]
           c  == s.config
           named  == c.user # "none" \/ c.group # "none"
           uidok  == (c.user = "none" \/ userknown) /\ MaySet(s.uid, s.uid, c.user)
           s2 == IF uidok THEN [s EXCEPT !.uid = Set(@, c.user)] ELSE s
           gidok  == /\ uidok /\ MaySet(s2.uid, s2.gid, TargetGroup(c))
                     /\ c.group \in {"none", c.user} \/ groupknown
           s3 == IF gidok THEN [s2 EXCEPT !.gid = Set(@, TargetGroup(c))] ELSE s2
           tested == named /\ c.user # c.group
       IN  IF ~named THEN Goto(p, "fork")
           ELSE Become(p, [s3 EXCEPT !.pc = IF gidok /\ (tested => access) THEN "fork" ELSE "close"])
    /\ UNCHANGED <<conffile, pidfile>>

Forks(p) == ~proc[p].fg /\ proc[p].config.daemonize

\* Daemonize without a fork.
StayForeground(p) ==
    /\ proc[p].pc = "fork" /\ ~Forks(p)
    /\ Goto(p, "loop")
    /\ UNCHANGED <<conffile, pidfile>>

\* Daemonize: the child goes on as a copy, under a new process id.  The parent
\* still has the socket.
Fork(p, child) ==
    /\ proc[p].pc = "fork" /\ Forks(p)
    /\ NextPid(ForkPids, child)
    /\ proc' = [proc EXCEPT ![child] = [proc[p] EXCEPT !.pc = "loop"], ![p].pc = "leave"]
    /\ UNCHANGED <<conffile, pidfile>>

\* The parent exits.
ParentExits(p) ==
    /\ proc[p].pc = "leave"
    /\ Die(p, "left")
    /\ UNCHANGED <<conffile, pidfile>>

ForkFails(p) ==
    /\ proc[p].pc = "fork" /\ Forks(p)
    /\ Die(p, "dead")
    /\ UNCHANGED <<conffile, pidfile>>

\* Mutant: the loop does not look at running.
LeaveLoopNot(p) ==
    /\ proc[p].pc = "loop" /\ ~proc[p].running
    /\ UNCHANGED lvars

LeaveLoop(p) ==
    /\ proc[p].pc = "loop" /\ ~proc[p].running
    /\ Goto(p, "close")
    /\ UNCHANGED <<conffile, pidfile>>

\* ShutdownSockets and DeallocateClients.
ShutdownSockets(p) ==
    /\ proc[p].pc = "close"
    /\ Become(p, [proc[p] EXCEPT !.pc = "unlink", !.bound = FALSE])
    /\ UNCHANGED <<conffile, pidfile>>

\* The file goes, whoever's number is in it; then DeallocateConfig.
UnlinkPid(p) ==
    /\ proc[p].pc = "unlink"
    /\ pidfile' = IF MayWrite(p) THEN [pidfile EXCEPT ![Path(p)] = Absent] ELSE pidfile
    /\ Die(p, "stopped")
    /\ UNCHANGED conffile

-----------------------------------------------------------------------------
(***************************************************************************)
(* Signals, and what freed memory may do.                                  *)
(***************************************************************************)
SigTerm(p) ==
    /\ Live(p) /\ proc[p].running
    /\ Become(p, [proc[p] EXCEPT !.running = FALSE])
    /\ UNCHANGED <<conffile, pidfile>>

\* The administrator has changed the file, or not, before sending SIGHUP.  A
\* process with a freed configuration is at the mercy of UseFreed already.
SigHup(p, f) ==
    /\ Live(p) /\ proc[p].pc \in SignalAt /\ proc[p].config.st # "freed"
    /\ conffile' = f
    /\ Become(p, Rehashed(proc[p], FileNamed(proc[p].configfile, f)))
    /\ UNCHANGED pidfile

SigKill(p) ==
    /\ Live(p) /\ proc[p].pc \in SignalAt
    /\ Die(p, "dead")
    /\ UNCHANGED <<conffile, pidfile>>

\* A process whose configuration was freed may crash when it uses it.
UseFreed(p) ==
    /\ Live(p) /\ proc[p].config.st = "freed"
    /\ Die(p, "dead")
    /\ UNCHANGED <<conffile, pidfile>>

ProcStep(p) ==
    \/ StartParse(p)
    \/ CheckPid(p)
    \/ RemoveStale(p)
    \/ OpenPid(p)
    \/ WritePid(p)
    \/ \E ok \in BOOLEAN : InitializeSockets(p, ok)
    \/ \E userknown, groupknown, access \in BOOLEAN :
          SwitchUserAndGroup(p, userknown, groupknown, access)
    \/ StayForeground(p)
    \/ \E child \in Pids : Fork(p, child)
    \/ ParentExits(p)
    \/ ForkFails(p)
    \/ LeaveLoop(p)
    \/ ShutdownSockets(p)
    \/ UnlinkPid(p)

Signal(p) ==
    \/ SigTerm(p)
    \/ \E f \in ConfFiles : SigHup(p, f)
    \/ SigKill(p)
    \/ UseFreed(p)

LNext ==
    \E p \in Pids :
        \/ \E who \in Starters, args \in CommandLines : Start(p, who, args)
        \/ ProcStep(p)
        \/ Signal(p)

\* Every process that runs is scheduled; epoll_wait returns within readtimeout.
LSpec == LInit /\ [][LNext]_lvars /\ \A p \in Pids : WF_lvars(ProcStep(p))

-----------------------------------------------------------------------------
(***************************************************************************)
(* Properties.                                                             *)
(***************************************************************************)
Configs ==
    [st : {"first", "new", "freed"}, directory : BOOLEAN, daemonize : BOOLEAN,
     user : Account \union {"none"}, group : Account \union {"none"},
     pidfile : Paths \union {"unset"}, listens : BOOLEAN]

\* The names configfile may have.
ConfigNames == {"default"} \union UNION {Range(args) : args \in CommandLines}

Labels == Starts \union Ends \union {"unborn", "loop", "leave", "close", "unlink"}

Processes ==
    [pc : Labels, configfile : ConfigNames, config : Configs \union {NoConfig},
     running : BOOLEAN, fg : BOOLEAN, uid : Account, gid : Account,
     path : Paths \union {"unset"}, ino : Pids \union {0}, bound : BOOLEAN]

\* Type invariant.  A usable configuration names a PID file.
LTypeOK ==
    /\ conffile \in ConfFiles
    /\ pidfile \in [Paths -> [ino : Pids \union {0}, text : Pids \union {0}]]
    /\ proc \in [Pids -> Processes]
    /\ \A p \in Pids : Usable(proc[p].config) => proc[p].config.pidfile \in Paths

\* A process in the event loop holds the listening socket, and no other one
\* does but a parent that is about to exit: also when several are started at
\* once, fork, are killed or stop.
ServesAlone ==
    \A p, q \in Pids : proc[p].pc = "loop" =>
        proc[p].bound /\ (proc[q].bound /\ proc[q].pc # "leave" => q = p)

\* A process in the event loop runs as the user and the group that its
\* configuration names, unless a rehash has changed that since; under the
\* user's primary group, if the group has the user's name.
ServesAsConfigured ==
    \A p \in Pids :
        LET c == proc[p].config
        IN  proc[p].pc = "loop" /\ c.st = "first" =>
                /\ c.user  # "none" => proc[p].uid = c.user
                /\ c.group # "none" =>
                      proc[p].gid = IF c.group = c.user THEN PrimaryGroup[c.user] ELSE c.group

\* WritePID refuses to start only while another process is running: no stale
\* PID file of a daemon that was killed while it served keeps a new one out.
RefusedMeansRunning ==
    [][\A p \in Pids : proc[p].pc # "refused" /\ proc'[p].pc = "refused"
            => \E q \in Pids \ {p} : Live(q)]_lvars

\* A process that received SIGTERM ends, at whatever point it was hit.
TermEnds ==
    \A p \in Pids : (Live(p) /\ ~proc[p].running) ~> ~Live(p)

\* The PID file of a daemon that serves holds its process id.
PidFileNamesServer ==
    \A p \in Pids : proc[p].pc = "loop" /\ proc[p].config.st = "first" =>
        FileAt(Path(p)).text = p

=============================================================================
