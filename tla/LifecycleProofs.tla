--------------------------- MODULE LifecycleProofs --------------------------
(***************************************************************************)
(* Invariants of Lifecycle, for every number of processes, every set of    *)
(* configurations, PID files and accounts, and every way to send signals.  *)
(***************************************************************************)
EXTENDS Lifecycle, SeqLemmas

AllFiles == {Missing, Broken} \union ReadableFiles

(***************************************************************************)
(* The inductive invariant: what is true of each process, and that one at  *)
(* most holds the socket.                                                  *)
(***************************************************************************)
\* From a successful ParseConfig to the end there is a configuration object.
Configured == (Starts \ {"parse"}) \union {"loop", "close", "unlink"}

AsConfigured(s) ==
    s.pc \in {"fork", "loop"} /\ s.config.st = "first" =>
        /\ s.config.user  # "none" => s.uid = s.config.user
        /\ s.config.group # "none" =>
              s.gid = IF s.config.group = s.config.user THEN PrimaryGroup[s.config.user]
                      ELSE s.config.group

GoodProc(s) ==
    /\ s \in Processes
    /\ Usable(s.config) => s.config.pidfile \in Paths
    /\ s.pc \in Configured => s.config \in Configs
    /\ s.pc \in {"user", "fork", "loop", "close"} => s.bound
    /\ s.pc = "pidwrite" => s.path \in Paths
    /\ AsConfigured(s)

PidFiles == [Paths -> [ino : Pids \union {0}, text : Pids \union {0}]]

\* The parent of a fork that is about to exit no longer counts.
HasSocket(s) == s.bound /\ s.pc # "leave"

OneBound == \A p, q \in Pids : HasSocket(proc[p]) /\ HasSocket(proc[q]) => p = q

LifeInv ==
    /\ conffile \in ConfFiles /\ pidfile \in PidFiles
    /\ proc \in [Pids -> Processes] /\ \A p \in Pids : GoodProc(proc[p])
    /\ OneBound

-----------------------------------------------------------------------------
\* The absence of a configuration is not mistaken for one.
LEMMA NoConfigIsNone == NoConfig \notin Configs /\ NoConfig.st = "none" /\ ~Usable(NoConfig)
  <1>1. NoConfig.st = "none"
    BY DEF NoConfig
  <1>2. \A c \in Configs : c.st # "none"
    BY DEF Configs
  <1> QED
    BY <1>1, <1>2 DEF Usable

\* The entries of a file make a configuration, in which only a new object has
\* another user or group.
LEMMA ParsedGood ==
    ASSUME NEW c \in Configs \union {NoConfig}, NEW f \in ReadableFiles
    PROVE  LET d == Parsed(c, f)
           IN  /\ d \in Configs \union {NoConfig}
               /\ c \in Configs => d \in Configs
               /\ d.st = "first" => c \in Configs /\ c.st = "first" /\ d.user = c.user
                                    /\ d.group = c.group
  <1> DEFINE e == ServerEntry(f)
  <1>1. e \in Configs /\ e.st = "new"
    BY DEF ServerEntry, Configs, ReadableFiles
  <1> HIDE DEF e
  <1>2. ASSUME NEW b \in Configs
        PROVE  /\ ListenEntry(b) \in Configs /\ ListenEntry(b).st = b.st
               /\ ListenEntry(b).user = b.user /\ ListenEntry(b).group = b.group
    <2>1. ListenEntry(b) = [b EXCEPT !.listens = TRUE]
      BY NoConfigIsNone DEF ListenEntry
    <2> QED
      BY <2>1 DEF Configs
  <1>3. ListenEntry(NoConfig) \in Configs /\ ListenEntry(NoConfig).st = "new"
    BY DEF ListenEntry, Configs
  <1>4. Parsed(c, f) \in {c, e, ListenEntry(c), ListenEntry(e)}
    BY DEF Parsed, e
  <1>5. CASE c \in Configs
    BY <1>1, <1>2, <1>4, <1>5
  <1>6. CASE c = NoConfig
    BY <1>1, <1>2, <1>3, <1>4, <1>6, NoConfigIsNone
  <1> QED
    BY <1>5, <1>6

\* So does ParseConfig, which adds the default PID file.
LEMMA ParseConfigGood ==
    ASSUME NEW c \in Configs \union {NoConfig}, NEW f \in ReadableFiles
    PROVE  LET d == ParseConfig(c, f)
           IN  /\ d \in Configs \union {NoConfig}
               /\ c \in Configs => d \in Configs
               /\ Usable(d) => d \in Configs /\ d.pidfile \in Paths
               /\ d.st = "first" => c \in Configs /\ c.st = "first" /\ d.user = c.user
                                    /\ d.group = c.group
  <1> DEFINE b == Parsed(c, f)
             d == ParseConfig(c, f)
  <1>1. /\ b \in Configs \union {NoConfig}
        /\ c \in Configs => b \in Configs
        /\ b.st = "first" => c \in Configs /\ c.st = "first" /\ b.user = c.user
                             /\ b.group = c.group
    BY ParsedGood
  <1>2. d = IF Usable(b) /\ b.pidfile = "unset" THEN [b EXCEPT !.pidfile = DefaultPidfile] ELSE b
    BY DEF ParseConfig
  <1> HIDE DEF b, d
  <1>3. CASE Usable(b) /\ b.pidfile = "unset"
    <2>1. b \in Configs
      BY <1>1, <1>3, NoConfigIsNone
    <2>2. d = [b EXCEPT !.pidfile = DefaultPidfile] /\ DefaultPidfile \in Paths
      BY <1>2, <1>3, LifecycleAssumption
    <2>3. /\ d \in Configs /\ d.pidfile \in Paths /\ d.st = b.st /\ d.user = b.user
          /\ d.group = b.group
      BY <2>1, <2>2 DEF Configs
    <2> QED
      BY <1>1, <2>3 DEF d
  <1>4. CASE ~(Usable(b) /\ b.pidfile = "unset")
    <2>1. d = b
      BY <1>2, <1>4
    <2>2. Usable(b) => b \in Configs /\ b.pidfile \in Paths
      <3>1. b \in Configs => b.pidfile \in Paths \union {"unset"}
        BY DEF Configs
      <3> QED
        BY <1>1, <1>4, <3>1, NoConfigIsNone
    <2> QED
      BY <1>1, <2>1, <2>2 DEF d
  <1> QED
    BY <1>3, <1>4

\* A process that has ended, or one that has not begun.
LEMMA EndedGood ==
    ASSUME NEW end \in Ends \union {"unborn"}
    PROVE  GoodProc(Ended(end)) /\ Ended(end).bound = FALSE /\ Ended(end).pc = end
  <1> DEFINE s == Ended(end)
  <1>1. s = [Unborn EXCEPT !.pc = end]
    BY DEF Ended
  <1>2. end \in Labels /\ "root" \in Account /\ "default" \in ConfigNames
    BY LifecycleAssumption DEF Labels, ConfigNames
  <1>3. s \in Processes /\ s.config = NoConfig /\ s.pc = end /\ s.bound = FALSE
    BY <1>1, <1>2 DEF Unborn, Processes
  <1> HIDE DEF s
  <1>4. s.pc \notin Configured \union {"user", "fork", "loop", "close", "pidwrite"}
    BY <1>3 DEF Ends, Configured, Starts
  <1> QED
    BY <1>3, <1>4, NoConfigIsNone DEF GoodProc, AsConfigured, s

\* One process changes, and takes no socket it did not have.
LEMMA BecomeKeeps ==
    ASSUME LifeInv, NEW p \in Pids, NEW s, GoodProc(s), Become(p, s),
           HasSocket(s) => HasSocket(proc[p]) \/ \A q \in Pids : ~proc[q].bound,
           conffile' \in ConfFiles, pidfile' \in PidFiles
    PROVE  LifeInv'
  <1>1. s \in Processes /\ proc \in [Pids -> Processes]
    BY DEF GoodProc, LifeInv
  <1>2. proc' \in [Pids -> Processes] /\ \A q \in Pids : proc'[q] = IF q = p THEN s ELSE proc[q]
    BY <1>1 DEF Become
  <1>3. \A q \in Pids : GoodProc(proc'[q])
    BY <1>2 DEF LifeInv
  <1>4. OneBound'
    BY <1>2 DEF LifeInv, OneBound, HasSocket
  <1> QED
    BY <1>2, <1>3, <1>4 DEF LifeInv

\* What the process's own steps share: the files the kernel holds stay.
LEMMA DieKeeps ==
    ASSUME LifeInv, NEW p \in Pids, NEW end \in Ends, Die(p, end),
           conffile' \in ConfFiles, pidfile' \in PidFiles
    PROVE  LifeInv'
  <1>1. GoodProc(Ended(end)) /\ Ended(end).bound = FALSE
    BY EndedGood
  <1> QED
    BY <1>1, BecomeKeeps DEF Die, HasSocket

\* A process goes on to another label, with what it has.
LEMMA MoveGood ==
    ASSUME NEW s, GoodProc(s), NEW l \in Labels, l # "pidwrite",
           l \in Configured => s.config \in Configs,
           l \in {"user", "fork", "loop", "close"} => s.bound,
           l \in {"fork", "loop"} => s.pc \in {"fork", "loop"}
    PROVE  LET t == [s EXCEPT !.pc = l]
           IN  GoodProc(t) /\ t.bound = s.bound
  <1> DEFINE t == [s EXCEPT !.pc = l]
  <1>1. s \in Processes
    BY DEF GoodProc
  <1>2. /\ t \in Processes /\ t.pc = l /\ t.config = s.config /\ t.bound = s.bound
        /\ t.uid = s.uid /\ t.gid = s.gid
    BY <1>1 DEF Processes
  <1> HIDE DEF t
  <1>3. AsConfigured(t)
    BY <1>2 DEF GoodProc, AsConfigured
  <1> QED
    BY <1>2, <1>3 DEF GoodProc, t

\* So Goto keeps the invariant.
LEMMA GotoKeeps ==
    ASSUME LifeInv, NEW p \in Pids, NEW l \in Labels, Goto(p, l), l # "pidwrite",
           l \in Configured => proc[p].config \in Configs,
           l \in {"user", "fork", "loop", "close"} => proc[p].bound,
           l \in {"fork", "loop"} => proc[p].pc \in {"fork", "loop"}, proc[p].pc # "leave",
           conffile' \in ConfFiles, pidfile' \in PidFiles
    PROVE  LifeInv'
  <1> DEFINE t == [proc[p] EXCEPT !.pc = l]
  <1>1. GoodProc(proc[p])
    BY DEF LifeInv
  <1>2. GoodProc(t) /\ t.bound = proc[p].bound
    BY <1>1, MoveGood
  <1>3. Become(p, t)
    BY DEF Goto
  <1> HIDE DEF t
  <1> QED
    BY <1>2, <1>3, BecomeKeeps DEF HasSocket

\* The word HandleArguments takes for the configuration is one of the command line.
LEMMA ArgumentsGood ==
    ASSUME NEW args \in CommandLines
    PROVE  /\ HandleArguments(args).configfile \in ConfigNames
           /\ HandleArguments(args).nofork \in BOOLEAN
  <1> DEFINE names == {i \in 1..Len(args) :
                          args[i] \notin Options /\ \E j \in {k \in 1..Len(args) : args[k] = "-c"} : j < i}
  <1>1. args \in Seq(STRING) /\ Len(args) \in Nat /\ DOMAIN args = 1..Len(args)
    BY LifecycleAssumption, LenProperties
  <1>2. HandleArguments(args).configfile = IF names = {} THEN "default" ELSE args[Max(names)]
    BY DEF HandleArguments
  <1>3. names # {} => Max(names) \in 1..Len(args)
    <2>1. names \subseteq 1..Len(args)
      OBVIOUS
    <2> HIDE DEF names
    <2> QED
      BY <1>1, <2>1, GreatestPosition
  <1> HIDE DEF names
  <1>4. names # {} => args[Max(names)] \in ConfigNames
    BY <1>1, <1>3 DEF ConfigNames, Range
  <1>5. HandleArguments(args).configfile \in ConfigNames
    BY <1>2, <1>4 DEF ConfigNames
  <1>6. HandleArguments(args).nofork \in BOOLEAN
    BY DEF HandleArguments
  <1> QED
    BY <1>5, <1>6

\* A started process.
LEMMA StartKeeps ==
    ASSUME LifeInv, NEW p \in Pids, NEW who \in Starters, NEW args \in CommandLines,
           Start(p, who, args)
    PROVE  LifeInv'
  <1> DEFINE a == HandleArguments(args)
             s == [Unborn EXCEPT !.pc = "parse", !.uid = who, !.gid = PrimaryGroup[who],
                                 !.configfile = a.configfile, !.fg = a.nofork]
  <1>1. conffile' \in ConfFiles /\ pidfile' \in PidFiles
    BY DEF Start, LifeInv
  <1>2. CASE a.exit
    <2>1. Die(p, "dead") /\ "dead" \in Ends
      BY <1>2 DEF Start, Ends
    <2> QED
      BY <1>1, <2>1, DieKeeps
  <1>3. CASE ~a.exit
    <2>1. Become(p, s)
      BY <1>3 DEF Start
    <2>2. /\ a.configfile \in ConfigNames /\ a.nofork \in BOOLEAN
          /\ who \in Account /\ PrimaryGroup[who] \in Account
      BY ArgumentsGood, LifecycleAssumption
    <2>3. "parse" \in Labels
      BY DEF Labels, Starts
    <2> HIDE DEF a
    <2>4. s \in Processes /\ s.pc = "parse" /\ s.config = NoConfig /\ s.bound = FALSE
      BY <2>2, <2>3 DEF Unborn, Processes
    <2> HIDE DEF s
    <2>5. GoodProc(s)
      BY <2>4, NoConfigIsNone DEF GoodProc, AsConfigured, Configured, Starts
    <2> QED
      BY <1>1, <2>1, <2>4, <2>5, BecomeKeeps DEF HasSocket
  <1> QED
    BY <1>2, <1>3

\* The file a name stands for.
LEMMA FileNamedGood ==
    ASSUME NEW name, NEW def \in ConfFiles
    PROVE  FileNamed(name, def) \in AllFiles
  BY LifecycleAssumption DEF FileNamed, AllFiles, Range

\* The first ParseConfig.
LEMMA ParseKeeps ==
    ASSUME LifeInv, NEW p \in Pids, StartParse(p)
    PROVE  LifeInv'
  <1> DEFINE s == proc[p]
             f == FileNamed(s.configfile, conffile)
             c == ParseConfig(s.config, f)
             d == [c EXCEPT !.st = "first"]
             t == [s EXCEPT !.pc = "pidcheck", !.config = d]
  <1>1. conffile' \in ConfFiles /\ pidfile' \in PidFiles /\ s \in Processes /\ s.pc = "parse"
        /\ s.config \in Configs \union {NoConfig}
    BY DEF StartParse, LifeInv, Processes
  <1>2. CASE ~(f \notin {Missing, Broken} /\ Usable(c))
    <2>1. Die(p, "dead") /\ "dead" \in Ends
      BY <1>2 DEF StartParse, Ends
    <2> QED
      BY <1>1, <2>1, DieKeeps
  <1>3. CASE f \notin {Missing, Broken} /\ Usable(c)
    <2>1. Become(p, t)
      BY <1>3 DEF StartParse
    <2>2. f \in ReadableFiles
      BY <1>3, FileNamedGood DEF LifeInv, AllFiles
    <2>3. c \in Configs /\ c.pidfile \in Paths
      <3> HIDE DEF s, f
      <3> QED
        BY <1>1, <1>3, <2>2, ParseConfigGood
    <2> HIDE DEF c
    <2>4. d \in Configs /\ d.pidfile \in Paths
      BY <2>3 DEF Configs
    <2>5. "pidcheck" \in Labels
      BY DEF Labels, Starts
    <2> HIDE DEF d, s
    <2>6. t \in Processes /\ t.pc = "pidcheck" /\ t.config = d /\ t.bound = s.bound
      BY <1>1, <2>4, <2>5 DEF Processes
    <2> HIDE DEF t
    <2>7. GoodProc(t)
      BY <2>4, <2>6 DEF GoodProc, AsConfigured, Configured, Starts
    <2> QED
      BY <1>1, <2>1, <2>6, <2>7, BecomeKeeps DEF s, HasSocket
  <1> QED
    BY <1>2, <1>3

\* Changes to one PID file.
LEMMA PidFileGood ==
    ASSUME LifeInv, NEW path \in Paths, NEW ino \in Pids \union {0}, NEW text \in Pids \union {0}
    PROVE  /\ [pidfile EXCEPT ![path] = [ino |-> ino, text |-> text]] \in PidFiles
           /\ [pidfile EXCEPT ![path].text = text] \in PidFiles
           /\ [pidfile EXCEPT ![path] = Absent] \in PidFiles
  <1>1. pidfile \in [Paths -> [ino : Pids \union {0}, text : Pids \union {0}]]
    BY DEF LifeInv, PidFiles
  <1>2. Absent \in [ino : Pids \union {0}, text : Pids \union {0}]
    BY DEF Absent
  <1>3. [pidfile[path] EXCEPT !.text = text] \in [ino : Pids \union {0}, text : Pids \union {0}]
    BY <1>1
  <1>4. [ino |-> ino, text |-> text] \in [ino : Pids \union {0}, text : Pids \union {0}]
    OBVIOUS
  <1> QED
    BY <1>1, <1>2, <1>3, <1>4 DEF PidFiles

\* WritePID.
LEMMA WritePIDKeeps ==
    ASSUME LifeInv, NEW p \in Pids, CheckPid(p) \/ RemoveStale(p) \/ OpenPid(p) \/ WritePid(p)
    PROVE  LifeInv'
  <1> DEFINE s == proc[p]
  <1>1. GoodProc(s) /\ s \in Processes /\ conffile \in ConfFiles /\ pidfile \in PidFiles
    BY DEF LifeInv
  <1>2. s.config \in Configs /\ s.pc # "leave"
    BY <1>1 DEF GoodProc, Configured, Starts, CheckPid, RemoveStale, OpenPid, WritePid
  <1>3. /\ {"pidopen", "pidstale", "sockets", "pidwrite"} \subseteq Labels
        /\ "refused" \in Ends
    BY DEF Labels, Starts, Ends
  <1>4. CASE CheckPid(p)
    <2>1. conffile' \in ConfFiles /\ pidfile' \in PidFiles
      BY <1>1, <1>4 DEF CheckPid
    <2>2. Goto(p, "pidopen") \/ Goto(p, "pidstale") \/ Die(p, "refused")
      BY <1>4 DEF CheckPid
    <2> QED
      BY <1>2, <1>3, <2>1, <2>2, GotoKeeps, DieKeeps
  <1>5. CASE RemoveStale(p)
    <2>1. MayWrite(p) => Path(p) \in Paths
      BY DEF MayWrite
    <2>2. conffile' \in ConfFiles /\ pidfile' \in PidFiles /\ Goto(p, "pidopen")
      BY <1>1, <1>5, <2>1, PidFileGood DEF RemoveStale
    <2> QED
      BY <1>2, <1>3, <2>2, GotoKeeps
  <1>6. CASE OpenPid(p)
    <2>1. CASE MayWrite(p)
      <3> DEFINE old == pidfile[Path(p)].ino
                 ino == IF old = 0 THEN p ELSE old
                 t   == [s EXCEPT !.pc = "pidwrite", !.path = Path(p), !.ino = ino]
      <3>1. Path(p) \in Paths
        BY <2>1 DEF MayWrite
      <3>2. ino \in Pids \union {0}
        BY <1>1, <3>1 DEF PidFiles
      <3>3. /\ pidfile' = [pidfile EXCEPT ![Path(p)] = [ino |-> ino, text |-> 0]]
            /\ Become(p, t) /\ conffile' = conffile
        BY <1>6, <2>1 DEF OpenPid
      <3> HIDE DEF ino
      <3>4. /\ t \in Processes /\ t.pc = "pidwrite" /\ t.path \in Paths /\ t.config = s.config
            /\ t.bound = s.bound
        BY <1>1, <1>3, <3>1, <3>2 DEF Processes
      <3> HIDE DEF t
      <3>5. GoodProc(t)
        BY <1>1, <1>2, <3>4 DEF GoodProc, AsConfigured
      <3>6. pidfile' \in PidFiles
        BY <3>1, <3>2, <3>3, PidFileGood
      <3> QED
        BY <1>1, <1>2, <3>3, <3>4, <3>5, <3>6, BecomeKeeps DEF HasSocket
    <2>2. CASE ~MayWrite(p)
      <3>1. Goto(p, "sockets") /\ conffile' \in ConfFiles /\ pidfile' \in PidFiles
        BY <1>1, <1>6, <2>2 DEF OpenPid
      <3> QED
        BY <1>2, <1>3, <3>1, GotoKeeps
    <2> QED
      BY <2>1, <2>2
  <1>7. CASE WritePid(p)
    <2>1. s.path \in Paths
      BY <1>1, <1>7 DEF GoodProc, WritePid
    <2>2. conffile' \in ConfFiles /\ pidfile' \in PidFiles /\ Goto(p, "sockets")
      BY <1>1, <1>7, <2>1, PidFileGood DEF WritePid
    <2> QED
      BY <1>2, <1>3, <2>2, GotoKeeps
  <1> QED
    BY <1>4, <1>5, <1>6, <1>7

\* The kernel gives the address to one process.
LEMMA SocketsKeep ==
    ASSUME LifeInv, NEW p \in Pids, NEW ok \in BOOLEAN, InitializeSockets(p, ok)
    PROVE  LifeInv'
  <1> DEFINE s == proc[p]
             t == [s EXCEPT !.pc = "user", !.bound = TRUE]
  <1>1. /\ GoodProc(s) /\ s \in Processes /\ s.pc = "sockets"
        /\ conffile' \in ConfFiles /\ pidfile' \in PidFiles
    BY DEF LifeInv, InitializeSockets
  <1>2. CASE ok
    <2>1. Become(p, t) /\ \A q \in Pids : ~proc[q].bound
      BY <1>2 DEF InitializeSockets
    <2>2. "user" \in Labels /\ s.config \in Configs
      BY <1>1 DEF GoodProc, Configured, Starts, Labels
    <2>3. t \in Processes /\ t.pc = "user" /\ t.bound = TRUE /\ t.config = s.config
      BY <1>1, <2>2 DEF Processes
    <2> HIDE DEF t
    <2>4. GoodProc(t)
      BY <1>1, <2>2, <2>3 DEF GoodProc, AsConfigured
    <2> QED
      BY <1>1, <2>1, <2>4, BecomeKeeps
  <1>3. CASE ~ok
    <2>1. Die(p, "dead") /\ "dead" \in Ends
      BY <1>3 DEF InitializeSockets, Ends
    <2> QED
      BY <1>1, <2>1, DieKeeps
  <1> QED
    BY <1>2, <1>3

\* SwitchUserAndGroup goes on only with both changed.
LEMMA SwitchGood ==
    ASSUME LifeInv, NEW p \in Pids, NEW userknown \in BOOLEAN, NEW groupknown \in BOOLEAN,
           NEW access \in BOOLEAN, SwitchUserAndGroup(p, userknown, groupknown, access)
    PROVE  \E t : /\ Become(p, t) /\ GoodProc(t) /\ t.bound = proc[p].bound
                 /\ t.config = proc[p].config /\ t.pc \in {"fork", "close"}
  <1> DEFINE s  == proc[p]
             c  == s.config
             g  == TargetGroup(c)
             named  == c.user # "none" \/ c.group # "none"
             uidok  == (c.user = "none" \/ userknown) /\ MaySet(s.uid, s.uid, c.user)
             s2 == IF uidok THEN [s EXCEPT !.uid = Set(@, c.user)] ELSE s
             gidok  == /\ uidok /\ MaySet(s2.uid, s2.gid, g)
                       /\ c.group \in {"none", c.user} \/ groupknown
             s3 == IF gidok THEN [s2 EXCEPT !.gid = Set(@, g)] ELSE s2
             tested == named /\ c.user # c.group
             l == IF gidok /\ (tested => access) THEN "fork" ELSE "close"
             t == IF named THEN [s3 EXCEPT !.pc = l] ELSE [s EXCEPT !.pc = "fork"]
  <1>1. /\ GoodProc(s) /\ s \in Processes /\ s.pc = "user"
        /\ conffile' \in ConfFiles /\ pidfile' \in PidFiles
    BY DEF LifeInv, SwitchUserAndGroup
  <1>2. Become(p, t)
    BY DEF SwitchUserAndGroup, Goto
  <1>3. c \in Configs /\ s.bound /\ {"fork", "close"} \subseteq Labels
    BY <1>1 DEF GoodProc, Configured, Starts, Labels
  <1>4. c.user \in Account \union {"none"} /\ c.group \in Account \union {"none"}
    BY <1>3 DEF Configs
  <1>a. g = IF c.group = c.user /\ c.user # "none" THEN PrimaryGroup[c.user] ELSE c.group
    BY DEF TargetGroup
  <1>b. g \in Account \union {"none"} /\ (g = "none" => c.group = "none")
    BY <1>4, <1>a, LifecycleAssumption
  <1> HIDE DEF uidok, g
  <1>5. /\ s2 \in Processes /\ s2.config = c /\ s2.bound = s.bound
        /\ uidok /\ c.user # "none" => s2.uid = c.user
    BY <1>1, <1>4 DEF Processes, Set
  <1> HIDE DEF s2
  <1>6. gidok => uidok
    OBVIOUS
  <1> HIDE DEF gidok
  <1>7. /\ s3 \in Processes /\ s3.config = c /\ s3.bound = s.bound
        /\ gidok => /\ c.user # "none" => s3.uid = c.user
                    /\ c.group # "none" => s3.gid = g
    BY <1>b, <1>5, <1>6 DEF Processes, Set
  <1> HIDE DEF s3
  <1>8. l \in {"fork", "close"} /\ (l = "fork" => gidok)
    OBVIOUS
  <1> HIDE DEF l
  <1>9. /\ t \in Processes /\ t.config = c /\ t.bound = s.bound /\ t.pc \in {"fork", "close"}
        /\ AsConfigured(t)
    <2>1. CASE named
      <3>1. t = [s3 EXCEPT !.pc = l]
        BY <2>1
      <3> HIDE DEF t
      <3>2. /\ t \in Processes /\ t.config = c /\ t.bound = s.bound /\ t.pc = l
            /\ t.uid = s3.uid /\ t.gid = s3.gid
        BY <1>3, <1>7, <1>8, <3>1 DEF Processes
      <3> QED
        BY <1>a, <1>7, <1>8, <3>2 DEF AsConfigured
    <2>2. CASE ~named
      <3>1. t = [s EXCEPT !.pc = "fork"] /\ c.user = "none" /\ c.group = "none"
        BY <2>2
      <3> HIDE DEF t, named
      <3>2. /\ t \in Processes /\ t.config = c /\ t.bound = s.bound /\ t.pc = "fork"
        BY <1>1, <1>3, <3>1 DEF Processes
      <3> QED
        BY <3>1, <3>2 DEF AsConfigured
    <2> QED
      BY <2>1, <2>2
  <1> HIDE DEF t, named
  <1>10. GoodProc(t)
    BY <1>1, <1>3, <1>9 DEF GoodProc
  <1> QED
    BY <1>2, <1>9, <1>10

\* So it keeps the invariant.
LEMMA SwitchKeeps ==
    ASSUME LifeInv, NEW p \in Pids, NEW userknown \in BOOLEAN, NEW groupknown \in BOOLEAN,
           NEW access \in BOOLEAN, SwitchUserAndGroup(p, userknown, groupknown, access)
    PROVE  LifeInv'
  <1>1. PICK t : Become(p, t) /\ GoodProc(t) /\ t.bound = proc[p].bound
    BY SwitchGood
  <1>2. conffile' \in ConfFiles /\ pidfile' \in PidFiles /\ proc[p].pc = "user"
    BY DEF LifeInv, SwitchUserAndGroup
  <1> QED
    BY <1>1, <1>2, BecomeKeeps DEF HasSocket

\* Daemonize: the socket passes from the parent to the child.
LEMMA ForkKeeps ==
    ASSUME LifeInv, NEW p \in Pids, NEW child \in Pids, Fork(p, child)
    PROVE  LifeInv'
  <1> DEFINE t == [proc[p] EXCEPT !.pc = "loop"]
             e == [proc[p] EXCEPT !.pc = "leave"]
  <1>1. /\ GoodProc(proc[p]) /\ proc[p].pc = "fork" /\ proc[child].pc = "unborn"
        /\ proc \in [Pids -> Processes]
        /\ conffile' \in ConfFiles /\ pidfile' \in PidFiles
        /\ proc' = [proc EXCEPT ![child] = t, ![p] = e]
    BY DEF LifeInv, Fork, NextPid
  <1>2. proc[p].config \in Configs /\ proc[p].bound
    BY <1>1 DEF GoodProc, Configured, Starts
  <1>3. GoodProc(t) /\ t.bound = proc[p].bound
    <2>1. "loop" \in Labels /\ "loop" # "pidwrite"
      BY DEF Labels
    <2> QED
      BY <1>1, <1>2, <2>1, MoveGood
  <1>4. GoodProc(e) /\ e.pc = "leave"
    <2>1. "leave" \in Labels /\ "leave" \notin Configured /\ "leave" # "pidwrite"
      BY DEF Labels, Configured, Starts
    <2>2. GoodProc(e)
      BY <1>1, <2>1, MoveGood
    <2> QED
      BY <1>1, <2>2 DEF Processes
  <1> HIDE DEF t, e
  <1>5. t \in Processes /\ e \in Processes
    BY <1>3, <1>4 DEF GoodProc
  <1>6. /\ proc' \in [Pids -> Processes]
        /\ \A q \in Pids : proc'[q] = IF q = p THEN e ELSE IF q = child THEN t ELSE proc[q]
    BY <1>1, <1>5
  <1>7. \A q \in Pids : GoodProc(proc'[q])
    BY <1>3, <1>4, <1>6 DEF LifeInv
  <1>8. \A q \in Pids : HasSocket(proc'[q]) => q = child
    BY <1>1, <1>2, <1>4, <1>6 DEF LifeInv, OneBound, HasSocket
  <1>9. OneBound'
    BY <1>8 DEF OneBound, HasSocket
  <1> QED
    BY <1>1, <1>6, <1>7, <1>9 DEF LifeInv

\* The other steps of main.
LEMMA MainKeeps ==
    ASSUME LifeInv, NEW p \in Pids,
           \/ StayForeground(p) \/ ForkFails(p) \/ ParentExits(p)
           \/ LeaveLoop(p) \/ ShutdownSockets(p) \/ UnlinkPid(p)
    PROVE  LifeInv'
  <1> DEFINE s == proc[p]
  <1>1. GoodProc(s) /\ s \in Processes /\ conffile' \in ConfFiles /\ conffile \in ConfFiles
        /\ pidfile \in PidFiles
    BY DEF LifeInv, StayForeground, ForkFails, ParentExits, LeaveLoop, ShutdownSockets, UnlinkPid
  <1>2. s.pc \in {"fork", "loop", "close", "unlink"} => s.config \in Configs
    BY <1>1 DEF GoodProc, Configured, Starts
  <1>3. {"loop", "close", "unlink"} \subseteq Labels /\ {"dead", "left", "stopped"} \subseteq Ends
    BY DEF Labels, Ends
  <1>4. CASE StayForeground(p)
    <2>1. Goto(p, "loop") /\ s.pc = "fork" /\ pidfile' = pidfile
      BY <1>4 DEF StayForeground
    <2>2. s.bound
      BY <1>1, <2>1 DEF GoodProc
    <2> QED
      BY <1>1, <1>2, <1>3, <2>1, <2>2, GotoKeeps
  <1>5. CASE ForkFails(p)
    <2>1. Die(p, "dead") /\ pidfile' = pidfile
      BY <1>5 DEF ForkFails
    <2> QED
      BY <1>1, <1>3, <2>1, DieKeeps
  <1>6. CASE LeaveLoop(p)
    <2>1. Goto(p, "close") /\ s.pc = "loop" /\ pidfile' = pidfile
      BY <1>6 DEF LeaveLoop
    <2>2. s.bound
      BY <1>1, <2>1 DEF GoodProc
    <2> QED
      BY <1>1, <1>2, <1>3, <2>1, <2>2, GotoKeeps
  <1>7. CASE ShutdownSockets(p)
    <2> DEFINE t == [s EXCEPT !.pc = "unlink", !.bound = FALSE]
    <2>1. Become(p, t) /\ pidfile' = pidfile /\ s.pc = "close"
      BY <1>7 DEF ShutdownSockets
    <2>2. t \in Processes /\ t.pc = "unlink" /\ t.bound = FALSE /\ t.config = s.config
      BY <1>1, <1>3 DEF Processes
    <2> HIDE DEF t
    <2>3. GoodProc(t)
      BY <1>1, <1>2, <2>1, <2>2 DEF GoodProc, AsConfigured
    <2> QED
      BY <1>1, <2>1, <2>2, <2>3, BecomeKeeps DEF HasSocket
  <1>8. CASE UnlinkPid(p)
    <2>1. MayWrite(p) => Path(p) \in Paths
      BY DEF MayWrite
    <2>2. pidfile' \in PidFiles /\ Die(p, "stopped")
      BY <1>1, <1>8, <2>1, PidFileGood DEF UnlinkPid
    <2> QED
      BY <1>1, <1>3, <2>2, DieKeeps
  <1>9. CASE ParentExits(p)
    <2>1. Die(p, "left") /\ pidfile' = pidfile
      BY <1>9 DEF ParentExits
    <2> QED
      BY <1>1, <1>3, <2>1, DieKeeps
  <1> QED
    BY <1>4, <1>5, <1>6, <1>7, <1>8, <1>9

\* The configuration that remains after DeallocateConfig.
LEMMA DeallocatedGood ==
    ASSUME NEW c \in Configs, NEW b \in BOOLEAN
    PROVE  LET d == Deallocated(c, b)
           IN  /\ d \in Configs /\ d.pidfile = c.pidfile /\ d.user = c.user /\ d.group = c.group
               /\ d.st \in {c.st, "freed"}
  BY DEF Deallocated, Configs

\* The SIGHUP handler exchanges the configuration and changes nothing else.
LEMMA RehashedGood ==
    ASSUME NEW s, GoodProc(s), NEW f \in AllFiles
    PROVE  LET t == Rehashed(s, f)
           IN  \/ t = Ended("dead")
               \/ GoodProc(t) /\ t.bound = s.bound /\ t.pc = s.pc
  <1> DEFINE old == s.config
             new == ParseConfig(old, f)
             same == "server" \notin Range(f.blocks)
             d == Deallocated(new, same)
  <1>1. s \in Processes /\ old \in Configs \union {NoConfig}
    BY DEF GoodProc, Processes
  <1>2. ASSUME NEW c \in Configs \union {NoConfig}, old \in Configs => c \in Configs,
               Usable(c) => c.pidfile \in Paths,
               c.st = "first" => old.st = "first" /\ c.user = old.user /\ c.group = old.group
        PROVE  LET t == [s EXCEPT !.config = c]
               IN  GoodProc(t) /\ t.bound = s.bound /\ t.pc = s.pc
    <2> DEFINE t == [s EXCEPT !.config = c]
    <2>1. /\ t \in Processes /\ t.config = c /\ t.pc = s.pc /\ t.bound = s.bound /\ t.path = s.path
          /\ t.uid = s.uid /\ t.gid = s.gid
      BY <1>1 DEF Processes
    <2> HIDE DEF t
    <2>2. AsConfigured(t)
      BY <1>2, <2>1 DEF GoodProc, AsConfigured
    <2>3. GoodProc(t)
      BY <1>2, <2>1, <2>2 DEF GoodProc
    <2> QED
      BY <2>1, <2>3 DEF t
  <1>3. CASE f = Missing
    BY <1>3 DEF Rehashed
  <1>4. CASE f = Broken
    BY <1>4 DEF Rehashed, Missing, Broken
  <1>5. CASE f \notin {Missing, Broken}
    <2>1. f \in ReadableFiles
      BY <1>5 DEF AllFiles
    <2>2. Rehashed(s, f) = IF ~Usable(new) THEN [s EXCEPT !.config = new]
                           ELSE IF old = NoConfig THEN Ended("dead")
                           ELSE [s EXCEPT !.config = d]
      BY <1>5 DEF Rehashed
    <2>3. /\ new \in Configs \union {NoConfig}
          /\ old \in Configs => new \in Configs
          /\ Usable(new) => new \in Configs /\ new.pidfile \in Paths
          /\ new.st = "first" => old \in Configs /\ old.st = "first" /\ new.user = old.user
                                 /\ new.group = old.group
      BY <1>1, <2>1, ParseConfigGood
    <2>4. same \in BOOLEAN
      OBVIOUS
    <2> HIDE DEF new, same
    <2>5. CASE ~Usable(new)
      BY <1>2, <2>2, <2>3, <2>5
    <2>6. CASE Usable(new) /\ old # NoConfig
      <3>1. /\ d \in Configs /\ d.pidfile = new.pidfile /\ d.user = new.user
            /\ d.group = new.group /\ d.st \in {new.st, "freed"}
        BY <2>3, <2>4, <2>6, DeallocatedGood
      <3>2. Rehashed(s, f) = [s EXCEPT !.config = d]
        BY <2>2, <2>6
      <3> HIDE DEF d
      <3> QED
        BY <1>2, <2>3, <2>6, <3>1, <3>2
    <2>7. CASE Usable(new) /\ old = NoConfig
      BY <2>2, <2>7
    <2> QED
      BY <2>5, <2>6, <2>7
  <1> QED
    BY <1>3, <1>4, <1>5

\* Signals.
LEMMA SignalKeeps ==
    ASSUME LifeInv, NEW p \in Pids, Signal(p)
    PROVE  LifeInv'
  <1> DEFINE s == proc[p]
  <1>1. GoodProc(s) /\ s \in Processes /\ conffile \in ConfFiles /\ pidfile \in PidFiles
    BY DEF LifeInv
  <1>2. "dead" \in Ends
    BY DEF Ends
  <1>3. CASE SigTerm(p)
    <2> DEFINE t == [s EXCEPT !.running = FALSE]
    <2>1. Become(p, t) /\ UNCHANGED <<conffile, pidfile>>
      BY <1>3 DEF SigTerm
    <2>2. /\ t \in Processes /\ t.config = s.config /\ t.pc = s.pc /\ t.bound = s.bound
          /\ t.path = s.path /\ t.uid = s.uid /\ t.gid = s.gid
      BY <1>1 DEF Processes
    <2> HIDE DEF t
    <2>3. GoodProc(t)
      BY <1>1, <2>2 DEF GoodProc, AsConfigured
    <2> QED
      BY <1>1, <2>1, <2>2, <2>3, BecomeKeeps DEF HasSocket
  <1>4. ASSUME NEW f \in ConfFiles, SigHup(p, f) PROVE LifeInv'
    <2> DEFINE g == FileNamed(s.configfile, f)
               t == Rehashed(s, g)
    <2>1. conffile' \in ConfFiles /\ pidfile' \in PidFiles /\ Become(p, t)
      BY <1>1, <1>4 DEF SigHup
    <2>2. g \in AllFiles
      BY FileNamedGood
    <2> HIDE DEF g
    <2>3. t = Ended("dead") \/ (GoodProc(t) /\ t.bound = s.bound /\ t.pc = s.pc)
      BY <1>1, <2>2, RehashedGood
    <2> HIDE DEF t
    <2>4. CASE t = Ended("dead")
      BY <1>2, <2>1, <2>4, DieKeeps DEF Die
    <2>5. CASE GoodProc(t) /\ t.bound = s.bound /\ t.pc = s.pc
      BY <2>1, <2>5, BecomeKeeps DEF HasSocket
    <2> QED
      BY <2>3, <2>4, <2>5
  <1>5. CASE SigKill(p) \/ UseFreed(p)
    <2>1. Die(p, "dead") /\ UNCHANGED <<conffile, pidfile>>
      BY <1>5 DEF SigKill, UseFreed
    <2> QED
      BY <1>1, <1>2, <2>1, DieKeeps
  <1> QED
    BY <1>3, <1>4, <1>5 DEF Signal

\* No process runs at first.
LEMMA InitLifeInv == LInit => LifeInv
  <1> SUFFICES ASSUME LInit PROVE LifeInv
    OBVIOUS
  <1>1. Unborn = Ended("unborn")
    <2>1. Ended("unborn") = [Unborn EXCEPT !.pc = Unborn.pc]
      BY DEF Ended, Unborn
    <2> QED
      BY <2>1 DEF Unborn
  <1>2. GoodProc(Unborn) /\ Unborn.bound = FALSE
    BY <1>1, EndedGood
  <1>3. \A p \in Pids : proc[p] = Unborn
    BY DEF LInit
  <1>4. Unborn \in Processes
    BY <1>2 DEF GoodProc
  <1>5. proc \in [Pids -> Processes]
    BY <1>4 DEF LInit
  <1>6. pidfile \in PidFiles /\ conffile \in ConfFiles
    BY DEF LInit, PidFiles, Absent
  <1> QED
    BY <1>2, <1>3, <1>5, <1>6 DEF LifeInv, OneBound, HasSocket

\* Every step keeps the invariant.
LEMMA NextLifeInv == LifeInv /\ [LNext]_lvars => LifeInv'
  <1> SUFFICES ASSUME LifeInv, [LNext]_lvars PROVE LifeInv'
    OBVIOUS
  <1>1. ASSUME NEW p \in Pids, ProcStep(p) PROVE LifeInv'
    BY <1>1, ParseKeeps, WritePIDKeeps, SocketsKeep, SwitchKeeps, ForkKeeps, MainKeeps DEF ProcStep
  <1>2. CASE UNCHANGED lvars
    BY <1>2 DEF lvars, LifeInv, OneBound, HasSocket
  <1> QED
    BY <1>1, <1>2, StartKeeps, SignalKeeps DEF LNext

\* Hence it always holds.
LEMMA LifeInvariance == LSpec => []LifeInv
  BY InitLifeInv, NextLifeInv, PTL DEF LSpec

-----------------------------------------------------------------------------
\* The state of all processes is well typed, and a usable configuration names a
\* PID file, after any sequence of rehashes.
THEOREM LifeTypeCorrect == LSpec => []LTypeOK
  <1>1. LifeInv => LTypeOK
    BY DEF LifeInv, LTypeOK, PidFiles, GoodProc
  <1> QED
    BY <1>1, LifeInvariance, PTL

\* A process in the event loop holds the listening socket and no other does but
\* parents about to exit, for any number of processes started at once, and
\* wherever signals hit them.
THEOREM ServersAreAlone == LSpec => []ServesAlone
  <1>1. LifeInv => ServesAlone
    BY DEF LifeInv, OneBound, HasSocket, GoodProc, ServesAlone
  <1> QED
    BY <1>1, LifeInvariance, PTL

\* A process in the event loop runs as the user and group it was configured
\* for, or under the user's primary group if the group has the user's name:
\* whatever the names, whoever starts it and however lookups fail.
THEOREM ServersAreConfigured == LSpec => []ServesAsConfigured
  <1>1. LifeInv => ServesAsConfigured
    BY DEF LifeInv, GoodProc, AsConfigured, ServesAsConfigured
  <1> QED
    BY <1>1, LifeInvariance, PTL

-----------------------------------------------------------------------------
(***************************************************************************)
(* PID files, if SIGHUP and SIGKILL spare processes that are starting: an  *)
(* empty file is one a process is about to write to, and a number in a     *)
(* file is that of a process that has got past writing it.                 *)
(***************************************************************************)
Early == {"unborn", "parse", "pidcheck", "pidstale", "pidopen", "pidwrite"}

Holds(s, path, ino) == s.pc = "pidwrite" /\ s.path = path /\ s.ino = ino

EmptyIsOpen ==
    \A path \in Paths : pidfile[path] # Absent /\ pidfile[path].text = 0 =>
        \E q \in Pids : Holds(proc[q], path, pidfile[path].ino)

WrittenIsPast ==
    \A path \in Paths, p \in Pids : pidfile[path].text = p => proc[p].pc \notin Early

StartsUnfreed == \A p \in Pids : proc[p].pc \in Starts => proc[p].config.st # "freed"

PidInv == LifeInv /\ EmptyIsOpen /\ WrittenIsPast /\ StartsUnfreed

\* A process changes, PID files at most go, and no file that is open for the
\* number loses its writer.
LEMMA QuietStep ==
    ASSUME PidInv, LifeInv', NEW p \in Pids, NEW s, Become(p, s),
           \A path \in Paths : pidfile'[path] \in {pidfile[path], Absent},
           proc[p].pc = "pidwrite" => Holds(s, proc[p].path, proc[p].ino),
           s.pc \in Early => proc[p].pc \in Early,
           s.pc \in Starts => s.config.st # "freed"
    PROVE  PidInv'
  <1>1. \A q \in Pids : proc'[q] = IF q = p THEN s ELSE proc[q]
    BY DEF Become, PidInv, LifeInv
  <1>2. EmptyIsOpen'
    <2> SUFFICES ASSUME NEW path \in Paths, pidfile'[path] # Absent, pidfile'[path].text = 0
                 PROVE  \E q \in Pids : Holds(proc'[q], path, pidfile'[path].ino)
      BY DEF EmptyIsOpen
    <2>1. pidfile'[path] = pidfile[path]
      OBVIOUS
    <2>2. PICK q \in Pids : Holds(proc[q], path, pidfile[path].ino)
      BY <2>1 DEF PidInv, EmptyIsOpen
    <2>3. Holds(proc'[q], path, pidfile[path].ino)
      BY <1>1, <2>2 DEF Holds
    <2> QED
      BY <2>1, <2>3
  <1>3. WrittenIsPast'
    <2> SUFFICES ASSUME NEW path \in Paths, NEW r \in Pids, pidfile'[path].text = r
                 PROVE  proc'[r].pc \notin Early
      BY DEF WrittenIsPast
    <2>1. pidfile'[path] = pidfile[path]
      <3>1. r # 0 /\ Absent.text = 0
        BY LifecycleAssumption DEF Absent
      <3> QED
        BY <3>1
    <2> QED
      BY <1>1, <2>1 DEF PidInv, WrittenIsPast
  <1>4. StartsUnfreed'
    BY <1>1 DEF PidInv, StartsUnfreed
  <1> QED
    BY <1>2, <1>3, <1>4 DEF PidInv

\* A process ends that was not about to write its number.
LEMMA QuietEnd ==
    ASSUME PidInv, LifeInv', NEW p \in Pids, NEW end \in Ends, Die(p, end),
           \A path \in Paths : pidfile'[path] \in {pidfile[path], Absent},
           proc[p].pc # "pidwrite"
    PROVE  PidInv'
  <1>1. Ended(end).pc = end
    BY EndedGood
  <1>2. end \notin Early /\ end \notin Starts
    BY DEF Ends, Early, Starts
  <1> QED
    BY <1>1, <1>2, QuietStep DEF Die

\* A process goes on that was not about to write its number.
LEMMA QuietMove ==
    ASSUME PidInv, LifeInv', NEW p \in Pids, NEW s, Become(p, s),
           \A path \in Paths : pidfile'[path] \in {pidfile[path], Absent},
           proc[p].pc # "pidwrite", s.config = proc[p].config,
           s.pc \in Early => proc[p].pc \in Early,
           s.pc \in Starts => proc[p].pc \in Starts
    PROVE  PidInv'
  <1>1. s.pc \in Starts => s.config.st # "freed"
    BY DEF PidInv, StartsUnfreed
  <1> QED
    BY <1>1, QuietStep

\* In particular to another label.
LEMMA QuietGoto ==
    ASSUME PidInv, LifeInv', NEW p \in Pids, NEW l, Goto(p, l),
           \A path \in Paths : pidfile'[path] \in {pidfile[path], Absent},
           proc[p].pc # "pidwrite",
           l \in Early => proc[p].pc \in Early, l \in Starts => proc[p].pc \in Starts
    PROVE  PidInv'
  <1> DEFINE t == [proc[p] EXCEPT !.pc = l]
  <1>1. proc[p] \in Processes
    BY DEF PidInv, LifeInv
  <1>2. t.pc = l /\ t.config = proc[p].config /\ Become(p, t)
    BY <1>1 DEF Processes, Goto
  <1> HIDE DEF t
  <1> QED
    BY <1>2, QuietMove

\* WritePID.
LEMMA WritePIDQuiet ==
    ASSUME PidInv, LifeInv', NEW p \in Pids,
           CheckPid(p) \/ RemoveStale(p) \/ OpenPid(p) \/ WritePid(p)
    PROVE  PidInv'
  <1>1. pidfile \in PidFiles /\ proc \in [Pids -> Processes] /\ proc[p] \in Processes
    BY DEF PidInv, LifeInv
  <1>2. CASE CheckPid(p)
    <2>1. proc[p].pc = "pidcheck" /\ \A path \in Paths : pidfile'[path] \in {pidfile[path], Absent}
      BY <1>2 DEF CheckPid
    <2>2. Goto(p, "pidopen") \/ Goto(p, "pidstale") \/ Die(p, "refused")
      BY <1>2 DEF CheckPid
    <2>3. "pidcheck" \in Early /\ "pidcheck" \in Starts /\ "refused" \in Ends
      BY DEF Early, Starts, Ends
    <2> QED
      BY <2>1, <2>2, <2>3, QuietGoto, QuietEnd
  <1>3. CASE RemoveStale(p)
    <2>1. proc[p].pc = "pidstale" /\ Goto(p, "pidopen")
      BY <1>3 DEF RemoveStale
    <2>2. \A path \in Paths : pidfile'[path] \in {pidfile[path], Absent}
      BY <1>1, <1>3 DEF RemoveStale, PidFiles
    <2>3. "pidstale" \in Early /\ "pidstale" \in Starts
      BY DEF Early, Starts
    <2> QED
      BY <2>1, <2>2, <2>3, QuietGoto
  <1>4. CASE OpenPid(p) /\ ~MayWrite(p)
    <2>1. proc[p].pc = "pidopen" /\ Goto(p, "sockets")
          /\ \A path \in Paths : pidfile'[path] \in {pidfile[path], Absent}
      BY <1>4 DEF OpenPid
    <2>2. "pidopen" \in Starts /\ "sockets" \notin Early
      BY DEF Early, Starts
    <2> QED
      BY <2>1, <2>2, QuietGoto
  <1>5. CASE OpenPid(p) /\ MayWrite(p)
    <2> DEFINE old == pidfile[Path(p)].ino
               ino == IF old = 0 THEN p ELSE old
               t   == [proc[p] EXCEPT !.pc = "pidwrite", !.path = Path(p), !.ino = ino]
    <2>1. /\ proc[p].pc = "pidopen" /\ Path(p) \in Paths
          /\ pidfile' = [pidfile EXCEPT ![Path(p)] = [ino |-> ino, text |-> 0]]
          /\ Become(p, t)
      BY <1>5 DEF OpenPid, MayWrite
    <2> HIDE DEF ino
    <2>2. t.pc = "pidwrite" /\ t.path = Path(p) /\ t.ino = ino /\ t.config = proc[p].config
      BY <1>1 DEF Processes
    <2> HIDE DEF t
    <2>3. \A q \in Pids : proc'[q] = IF q = p THEN t ELSE proc[q]
      BY <1>1, <2>1 DEF Become
    <2>4. \A path \in Paths : pidfile'[path] = IF path = Path(p) THEN [ino |-> ino, text |-> 0]
                                               ELSE pidfile[path]
      BY <1>1, <2>1 DEF PidFiles
    <2>5. EmptyIsOpen'
      <3> SUFFICES ASSUME NEW path \in Paths, pidfile'[path] # Absent, pidfile'[path].text = 0
                   PROVE  \E q \in Pids : Holds(proc'[q], path, pidfile'[path].ino)
        BY DEF EmptyIsOpen
      <3>1. CASE path = Path(p)
        <4>1. Holds(proc'[p], path, pidfile'[path].ino)
          BY <2>2, <2>3, <2>4, <3>1 DEF Holds
        <4> QED
          BY <4>1
      <3>2. CASE path # Path(p)
        <4>1. pidfile'[path] = pidfile[path]
          BY <2>4, <3>2
        <4>2. PICK q \in Pids : Holds(proc[q], path, pidfile[path].ino)
          BY <4>1 DEF PidInv, EmptyIsOpen
        <4>3. q # p
          BY <2>1, <4>2 DEF Holds
        <4> QED
          BY <2>3, <4>1, <4>2, <4>3
      <3> QED
        BY <3>1, <3>2
    <2>6. WrittenIsPast'
      <3> SUFFICES ASSUME NEW path \in Paths, NEW r \in Pids, pidfile'[path].text = r
                   PROVE  proc'[r].pc \notin Early
        BY DEF WrittenIsPast
      <3>1. r # 0
        BY LifecycleAssumption
      <3>2. pidfile[path].text = r
        BY <2>4, <3>1
      <3>3. proc[r].pc \notin Early
        BY <3>2 DEF PidInv, WrittenIsPast
      <3>4. r # p
        BY <2>1, <3>3 DEF Early
      <3> QED
        BY <2>3, <3>3, <3>4
    <2>7. StartsUnfreed'
      BY <2>1, <2>2, <2>3 DEF PidInv, StartsUnfreed, Starts
    <2> QED
      BY <2>5, <2>6, <2>7 DEF PidInv
  <1>6. CASE WritePid(p)
    <2> DEFINE at == proc[p].path
               t  == [proc[p] EXCEPT !.pc = "sockets"]
    <2>1. /\ proc[p].pc = "pidwrite" /\ Become(p, t)
          /\ pidfile' = IF pidfile[at].ino = proc[p].ino
                        THEN [pidfile EXCEPT ![at].text = p] ELSE pidfile
      BY <1>6 DEF WritePid, Goto
    <2>2. t.pc = "sockets" /\ t.config = proc[p].config
      BY <1>1 DEF Processes
    <2>3. at \in Paths
      BY <2>1 DEF PidInv, LifeInv, GoodProc
    <2> HIDE DEF t
    <2>4. \A q \in Pids : proc'[q] = IF q = p THEN t ELSE proc[q]
      BY <1>1, <2>1 DEF Become
    <2>5. ASSUME NEW path \in Paths
          PROVE  \/ pidfile'[path] = pidfile[path]
                    /\ (path = at => pidfile[path].ino # proc[p].ino)
                 \/ path = at /\ pidfile'[path].text = p
      BY <1>1, <2>1, <2>3 DEF PidFiles
    <2>6. EmptyIsOpen'
      <3> SUFFICES ASSUME NEW path \in Paths, pidfile'[path] # Absent, pidfile'[path].text = 0
                   PROVE  \E q \in Pids : Holds(proc'[q], path, pidfile'[path].ino)
        BY DEF EmptyIsOpen
      <3>1. p # 0
        BY LifecycleAssumption
      <3>2. pidfile'[path] = pidfile[path] /\ (path = at => pidfile[path].ino # proc[p].ino)
        BY <2>5, <3>1
      <3>3. PICK q \in Pids : Holds(proc[q], path, pidfile[path].ino)
        BY <3>2 DEF PidInv, EmptyIsOpen
      <3>4. q # p
        BY <3>2, <3>3 DEF Holds
      <3> QED
        BY <2>4, <3>2, <3>3, <3>4
    <2>7. WrittenIsPast'
      <3> SUFFICES ASSUME NEW path \in Paths, NEW r \in Pids, pidfile'[path].text = r
                   PROVE  proc'[r].pc \notin Early
        BY DEF WrittenIsPast
      <3>1. "sockets" \notin Early
        BY DEF Early
      <3>2. CASE r = p
        BY <2>2, <2>4, <3>1, <3>2
      <3>3. CASE r # p
        BY <2>4, <2>5, <3>3 DEF PidInv, WrittenIsPast
      <3> QED
        BY <3>2, <3>3
    <2>8. StartsUnfreed'
      BY <2>1, <2>2, <2>4 DEF PidInv, StartsUnfreed, Starts
    <2> QED
      BY <2>6, <2>7, <2>8 DEF PidInv
  <1> QED
    BY <1>2, <1>3, <1>4, <1>5, <1>6

\* The other steps of main, before the fork and after it.
LEMMA MainQuiet ==
    ASSUME PidInv, LifeInv', NEW p \in Pids,
           \/ StartParse(p)
           \/ \E ok \in BOOLEAN : InitializeSockets(p, ok)
           \/ \E userknown, groupknown, access \in BOOLEAN :
                 SwitchUserAndGroup(p, userknown, groupknown, access)
           \/ StayForeground(p) \/ ForkFails(p) \/ ParentExits(p)
           \/ LeaveLoop(p) \/ ShutdownSockets(p) \/ UnlinkPid(p)
    PROVE  PidInv'
  <1> DEFINE s == proc[p]
             Gone == \A path \in Paths : pidfile'[path] \in {pidfile[path], Absent}
  <1>1. pidfile \in PidFiles /\ proc \in [Pids -> Processes] /\ s \in Processes /\ GoodProc(s)
    BY DEF PidInv, LifeInv
  <1>2. {"dead", "left", "stopped"} \subseteq Ends
    BY DEF Ends
  <1>3. CASE StartParse(p)
    <2> DEFINE c == ParseConfig(s.config, FileNamed(s.configfile, conffile))
               d == [c EXCEPT !.st = "first"]
               t == [s EXCEPT !.pc = "pidcheck", !.config = d]
    <2>1. s.pc = "parse" /\ Gone
      BY <1>3 DEF StartParse
    <2>2. Die(p, "dead") \/ Become(p, t)
      BY <1>3 DEF StartParse
    <2> HIDE DEF c
    <2>3. t.pc = "pidcheck" /\ t.config = d
      BY <1>1 DEF Processes
    <2>4. CASE Die(p, "dead")
      BY <1>2, <2>1, <2>4, QuietEnd
    <2>5. CASE Become(p, t)
      <3>1. \/ Die(p, "dead")
            \/ FileNamed(s.configfile, conffile) \in ReadableFiles /\ Usable(c)
        BY <1>3, FileNamedGood DEF StartParse, AllFiles, PidInv, LifeInv, c
      <3>2. CASE FileNamed(s.configfile, conffile) \in ReadableFiles /\ Usable(c)
        <4>1. s.config \in Configs \union {NoConfig}
          BY <1>1 DEF Processes
        <4>2. c \in Configs
          BY <3>2, <4>1, ParseConfigGood DEF c
        <4>3. d.st = "first"
          BY <4>2 DEF Configs
        <4> HIDE DEF d, t
        <4>4. t.config.st # "freed" /\ s.pc \in Early
          BY <2>1, <2>3, <4>3 DEF Early
        <4> QED
          BY <2>1, <2>5, <4>4, QuietStep
      <3> QED
        BY <2>4, <3>1, <3>2
    <2> QED
      BY <2>2, <2>4, <2>5
  <1>4. ASSUME NEW ok \in BOOLEAN, InitializeSockets(p, ok) PROVE PidInv'
    <2> DEFINE t == [s EXCEPT !.pc = "user", !.bound = TRUE]
    <2>1. s.pc = "sockets" /\ Gone /\ (Become(p, t) \/ Die(p, "dead"))
      BY <1>4 DEF InitializeSockets
    <2>2. t.pc = "user" /\ t.config = s.config
      BY <1>1 DEF Processes
    <2> HIDE DEF t
    <2>3. s.pc \in Starts /\ t.pc \notin Early
      BY <2>1, <2>2 DEF Starts, Early
    <2> QED
      BY <1>2, <2>1, <2>2, <2>3, QuietEnd, QuietMove
  <1>5. ASSUME NEW userknown \in BOOLEAN, NEW groupknown \in BOOLEAN, NEW access \in BOOLEAN,
               SwitchUserAndGroup(p, userknown, groupknown, access)
        PROVE  PidInv'
    <2>1. s.pc = "user" /\ Gone
      BY <1>5 DEF SwitchUserAndGroup
    <2>2. PICK t : Become(p, t) /\ t.config = s.config /\ t.pc \in {"fork", "close"}
      BY <1>5, SwitchGood DEF PidInv
    <2>3. s.pc \in Starts /\ t.pc \notin Early
      BY <2>1, <2>2 DEF Starts, Early
    <2> QED
      BY <2>1, <2>2, <2>3, QuietMove
  <1>6. CASE StayForeground(p)
    <2>1. s.pc = "fork" /\ Gone /\ Goto(p, "loop") /\ "loop" \notin Early /\ "loop" \notin Starts
      BY <1>6 DEF StayForeground, Early, Starts
    <2> QED
      BY <2>1, QuietGoto
  <1>7. CASE ForkFails(p)
    <2>1. s.pc = "fork" /\ Gone /\ Die(p, "dead")
      BY <1>7 DEF ForkFails
    <2> QED
      BY <1>2, <2>1, QuietEnd
  <1>8. CASE LeaveLoop(p)
    <2>1. s.pc = "loop" /\ Gone /\ Goto(p, "close") /\ "close" \notin Early /\ "close" \notin Starts
      BY <1>8 DEF LeaveLoop, Early, Starts
    <2> QED
      BY <2>1, QuietGoto
  <1>9. CASE ShutdownSockets(p)
    <2> DEFINE t == [s EXCEPT !.pc = "unlink", !.bound = FALSE]
    <2>1. s.pc = "close" /\ Gone /\ Become(p, t)
      BY <1>9 DEF ShutdownSockets
    <2>2. t.pc = "unlink" /\ t.config = s.config
      BY <1>1 DEF Processes
    <2> HIDE DEF t
    <2>3. t.pc \notin Early /\ t.pc \notin Starts
      BY <2>2 DEF Early, Starts
    <2> QED
      BY <2>1, <2>2, <2>3, QuietMove
  <1>10. CASE UnlinkPid(p)
    <2>1. s.pc = "unlink" /\ Gone /\ Die(p, "stopped")
      BY <1>1, <1>10 DEF UnlinkPid, PidFiles
    <2> QED
      BY <1>2, <2>1, QuietEnd
  <1>11. CASE ParentExits(p)
    <2>1. s.pc = "leave" /\ Gone /\ Die(p, "left")
      BY <1>11 DEF ParentExits
    <2> QED
      BY <1>2, <2>1, QuietEnd
  <1> QED
    BY <1>3, <1>4, <1>5, <1>6, <1>7, <1>8, <1>9, <1>10, <1>11

\* Someone starts the program.
LEMMA StartQuiet ==
    ASSUME PidInv, LifeInv', NEW p \in Pids, NEW who \in Starters, NEW args \in CommandLines,
           Start(p, who, args)
    PROVE  PidInv'
  <1> DEFINE a == HandleArguments(args)
             s == [Unborn EXCEPT !.pc = "parse", !.uid = who, !.gid = PrimaryGroup[who],
                                 !.configfile = a.configfile, !.fg = a.nofork]
  <1>1. /\ proc[p].pc = "unborn" /\ \A path \in Paths : pidfile'[path] \in {pidfile[path], Absent}
        /\ (Die(p, "dead") \/ Become(p, s))
    BY DEF Start, NextPid
  <1> HIDE DEF a
  <1>2. s.pc = "parse" /\ s.config = NoConfig
    BY DEF Unborn
  <1> HIDE DEF s
  <1>3. s.config.st # "freed" /\ proc[p].pc \in Early /\ "dead" \in Ends
    BY <1>1, <1>2, NoConfigIsNone DEF Early, Ends
  <1> QED
    BY <1>1, <1>3, QuietStep, QuietEnd

\* The fork.
LEMMA ForkQuiet ==
    ASSUME PidInv, LifeInv', NEW p \in Pids, NEW child \in Pids, Fork(p, child)
    PROVE  PidInv'
  <1> DEFINE t == [proc[p] EXCEPT !.pc = "loop"]
             e == [proc[p] EXCEPT !.pc = "leave"]
  <1>1. /\ proc[p].pc = "fork" /\ proc[child].pc = "unborn" /\ pidfile' = pidfile
        /\ proc \in [Pids -> Processes] /\ proc' = [proc EXCEPT ![child] = t, ![p] = e]
    BY DEF PidInv, LifeInv, Fork, NextPid
  <1>2. t.pc = "loop" /\ e.pc = "leave"
    BY <1>1 DEF Processes
  <1> HIDE DEF t, e
  <1>3. \A q \in Pids : proc'[q] = IF q = p THEN e ELSE IF q = child THEN t ELSE proc[q]
    BY <1>1
  <1>4. {"loop", "leave"} \intersect (Early \union Starts) = {}
    BY DEF Early, Starts
  <1>5. EmptyIsOpen'
    <2> SUFFICES ASSUME NEW path \in Paths, pidfile[path] # Absent, pidfile[path].text = 0
                 PROVE  \E q \in Pids : Holds(proc'[q], path, pidfile[path].ino)
      BY <1>1 DEF EmptyIsOpen
    <2>1. PICK q \in Pids : Holds(proc[q], path, pidfile[path].ino)
      BY DEF PidInv, EmptyIsOpen
    <2>2. q # p /\ q # child
      BY <1>1, <2>1 DEF Holds
    <2> QED
      BY <1>3, <2>1, <2>2
  <1>6. WrittenIsPast' /\ StartsUnfreed'
    BY <1>1, <1>2, <1>3, <1>4 DEF PidInv, WrittenIsPast, StartsUnfreed
  <1> QED
    BY <1>5, <1>6 DEF PidInv

\* Signals; those that can end a process come only later.
LEMMA SignalQuiet ==
    ASSUME SignalAt \intersect Starts = {}, PidInv, LifeInv', NEW p \in Pids, Signal(p)
    PROVE  PidInv'
  <1> DEFINE s == proc[p]
             Gone == \A path \in Paths : pidfile'[path] \in {pidfile[path], Absent}
  <1>1. s \in Processes /\ GoodProc(s) /\ conffile \in ConfFiles
    BY DEF PidInv, LifeInv
  <1>2. "dead" \in Ends /\ "pidwrite" \in Starts /\ \A l \in Early : l = "unborn" \/ l \in Starts
    BY DEF Ends, Starts, Early
  <1>3. CASE SigTerm(p)
    <2> DEFINE t == [s EXCEPT !.running = FALSE]
    <2>1. Become(p, t) /\ Gone
      BY <1>3 DEF SigTerm
    <2>2. t.config = s.config /\ t.pc = s.pc /\ t.path = s.path /\ t.ino = s.ino
      BY <1>1 DEF Processes
    <2> HIDE DEF t
    <2>3. s.pc \in Starts => t.config.st # "freed"
      BY <2>2 DEF PidInv, StartsUnfreed
    <2>4. s.pc = "pidwrite" => Holds(t, s.path, s.ino)
      BY <2>2 DEF Holds
    <2> QED
      BY <2>1, <2>2, <2>3, <2>4, QuietStep
  <1>4. ASSUME NEW f \in ConfFiles, SigHup(p, f) PROVE PidInv'
    <2> DEFINE g == FileNamed(s.configfile, f)
               t == Rehashed(s, g)
    <2>1. Gone /\ Become(p, t) /\ Live(p) /\ s.pc \in SignalAt
      BY <1>4 DEF SigHup
    <2>2. s.pc \notin Starts /\ s.pc # "unborn" /\ s.pc # "pidwrite"
      BY <1>2, <2>1 DEF Live
    <2>3. g \in AllFiles
      BY FileNamedGood
    <2> HIDE DEF g
    <2>4. t = Ended("dead") \/ t.pc = s.pc
      BY <1>1, <2>3, RehashedGood
    <2> HIDE DEF t
    <2>5. CASE t = Ended("dead")
      BY <1>2, <2>1, <2>2, <2>5, QuietEnd DEF Die
    <2>6. CASE t.pc = s.pc
      BY <1>2, <2>1, <2>2, <2>6, QuietStep
    <2> QED
      BY <2>4, <2>5, <2>6
  <1>5. CASE SigKill(p) \/ UseFreed(p)
    <2>1. Die(p, "dead") /\ Gone
      BY <1>5 DEF SigKill, UseFreed
    <2>2. s.pc # "pidwrite"
      BY <1>2, <1>5 DEF SigKill, UseFreed, PidInv, StartsUnfreed
    <2> QED
      BY <1>2, <2>1, <2>2, QuietEnd
  <1> QED
    BY <1>3, <1>4, <1>5 DEF Signal

\* Every step keeps the invariant.
LEMMA NextPidInv ==
    ASSUME SignalAt \intersect Starts = {}
    PROVE  PidInv /\ [LNext]_lvars => PidInv'
  <1> SUFFICES ASSUME PidInv, [LNext]_lvars PROVE PidInv'
    OBVIOUS
  <1>1. LifeInv'
    BY NextLifeInv DEF PidInv
  <1>2. ASSUME NEW p \in Pids, ProcStep(p) PROVE PidInv'
    BY <1>1, <1>2, MainQuiet, WritePIDQuiet, ForkQuiet DEF ProcStep
  <1>3. ASSUME NEW p \in Pids, Signal(p) PROVE PidInv'
    BY <1>1, <1>3, SignalQuiet
  <1>4. CASE UNCHANGED lvars
    BY <1>1, <1>4 DEF lvars, PidInv, EmptyIsOpen, WrittenIsPast, StartsUnfreed
  <1> QED
    BY <1>1, <1>2, <1>3, <1>4, StartQuiet DEF LNext

\* There are no PID files at first.
LEMMA InitPidInv == LInit => PidInv
  <1> SUFFICES ASSUME LInit PROVE PidInv
    OBVIOUS
  <1>1. \A path \in Paths : pidfile[path] = Absent
    BY DEF LInit
  <1>2. \A p \in Pids : proc[p].pc = "unborn" /\ p # 0
    BY LifecycleAssumption DEF LInit, Unborn
  <1>3. EmptyIsOpen /\ StartsUnfreed
    BY <1>1, <1>2 DEF EmptyIsOpen, StartsUnfreed, Starts
  <1>4. WrittenIsPast
    BY <1>1, <1>2 DEF WrittenIsPast, Absent
  <1> QED
    BY <1>3, <1>4, InitLifeInv DEF PidInv

-----------------------------------------------------------------------------
\* A step of p that gives p another label than "refused" refuses no one.
LEMMA OtherLabel ==
    ASSUME LifeInv, NEW p \in Pids, NEW t, Become(p, t), t.pc # "refused",
           NEW r \in Pids, proc[r].pc # "refused"
    PROVE  proc'[r].pc # "refused"
  BY DEF LifeInv, Become

\* Nor does the end of a process for another reason, or the next label of main.
LEMMA OtherEnd ==
    ASSUME LifeInv, NEW p \in Pids, NEW end \in Ends, end # "refused", Die(p, end),
           NEW r \in Pids, proc[r].pc # "refused"
    PROVE  proc'[r].pc # "refused"
  BY EndedGood, OtherLabel DEF Die

\* Nor does a move to another label.
LEMMA OtherGoto ==
    ASSUME LifeInv, NEW p \in Pids, NEW label, label # "refused", Goto(p, label),
           NEW r \in Pids, proc[r].pc # "refused"
    PROVE  proc'[r].pc # "refused"
  <1> DEFINE t == [proc[p] EXCEPT !.pc = label]
  <1>1. proc[p] \in Processes /\ Become(p, t)
    BY DEF LifeInv, Goto
  <1>2. t.pc = label
    BY <1>1 DEF Processes
  <1> HIDE DEF t
  <1> QED
    BY <1>1, <1>2, OtherLabel

\* Only WritePID's test of the PID file refuses to start.
LEMMA OnlyCheckRefuses ==
    ASSUME LifeInv, [LNext]_lvars, NEW r \in Pids, proc[r].pc # "refused",
           proc'[r].pc = "refused"
    PROVE  CheckPid(r) /\ Die(r, "refused")
  <1>1. \A p \in Pids : GoodProc(proc[p]) /\ proc[p] \in Processes
    BY DEF LifeInv
  <1>2. proc \in [Pids -> Processes]
    BY DEF LifeInv
  <1>3. {"dead", "left", "stopped"} \subseteq Ends
    BY DEF Ends
  <1>4. ASSUME NEW p \in Pids, NEW who \in Starters, NEW args \in CommandLines, Start(p, who, args)
        PROVE  FALSE
    <2> DEFINE a == HandleArguments(args)
               s == [Unborn EXCEPT !.pc = "parse", !.uid = who, !.gid = PrimaryGroup[who],
                                   !.configfile = a.configfile, !.fg = a.nofork]
    <2>1. Die(p, "dead") \/ Become(p, s)
      BY <1>4 DEF Start
    <2> HIDE DEF a
    <2>2. s.pc = "parse"
      BY DEF Unborn
    <2> HIDE DEF s
    <2> QED
      BY <1>3, <2>1, <2>2, OtherEnd, OtherLabel
  <1>5. ASSUME NEW p \in Pids, CheckPid(p)
        PROVE  CheckPid(r) /\ Die(r, "refused")
    <2>1. Goto(p, "pidopen") \/ Goto(p, "pidstale") \/ Die(p, "refused")
      BY <1>5 DEF CheckPid
    <2>2. Die(p, "refused")
      BY <2>1, OtherGoto
    <2>3. r = p
      BY <1>2, <2>2 DEF Die, Become
    <2> QED
      BY <1>5, <2>2, <2>3
  <1>6. ASSUME NEW p \in Pids, StartParse(p) PROVE FALSE
    <2> DEFINE c == ParseConfig(proc[p].config, FileNamed(proc[p].configfile, conffile))
               t == [proc[p] EXCEPT !.pc = "pidcheck", !.config = [c EXCEPT !.st = "first"]]
    <2>1. Die(p, "dead") \/ Become(p, t)
      BY <1>6 DEF StartParse
    <2> HIDE DEF c
    <2>2. t.pc = "pidcheck"
      BY <1>1 DEF Processes
    <2> HIDE DEF t
    <2> QED
      BY <1>3, <2>1, <2>2, OtherEnd, OtherLabel
  <1>7. ASSUME NEW p \in Pids, OpenPid(p) PROVE FALSE
    <2> DEFINE ino == IF pidfile[Path(p)].ino = 0 THEN p ELSE pidfile[Path(p)].ino
               t == [proc[p] EXCEPT !.pc = "pidwrite", !.path = Path(p), !.ino = ino]
    <2>1. Goto(p, "sockets") \/ Become(p, t)
      BY <1>7 DEF OpenPid
    <2> HIDE DEF ino
    <2>2. t.pc = "pidwrite"
      BY <1>1 DEF Processes
    <2> HIDE DEF t
    <2> QED
      BY <2>1, <2>2, OtherGoto, OtherLabel
  <1>8. ASSUME NEW p \in Pids, NEW ok \in BOOLEAN, InitializeSockets(p, ok) PROVE FALSE
    <2> DEFINE t == [proc[p] EXCEPT !.pc = "user", !.bound = TRUE]
    <2>1. Become(p, t) \/ Die(p, "dead")
      BY <1>8 DEF InitializeSockets
    <2>2. t.pc = "user"
      BY <1>1 DEF Processes
    <2> HIDE DEF t
    <2> QED
      BY <1>3, <2>1, <2>2, OtherEnd, OtherLabel
  <1>9. ASSUME NEW p \in Pids, NEW userknown \in BOOLEAN, NEW groupknown \in BOOLEAN,
               NEW access \in BOOLEAN, SwitchUserAndGroup(p, userknown, groupknown, access)
        PROVE  FALSE
    <2>1. PICK t : Become(p, t) /\ t.pc \in {"fork", "close"}
      BY <1>9, SwitchGood
    <2>2. t.pc # "refused"
      BY <2>1
    <2> QED
      BY <2>1, <2>2, OtherLabel
  <1>10. ASSUME NEW p \in Pids, NEW child \in Pids, Fork(p, child) PROVE FALSE
    <2> DEFINE t == [proc[p] EXCEPT !.pc = "loop"]
               e == [proc[p] EXCEPT !.pc = "leave"]
    <2>1. proc' = [proc EXCEPT ![child] = t, ![p] = e]
      BY <1>10 DEF Fork
    <2>2. t.pc = "loop" /\ e.pc = "leave"
      BY <1>1 DEF Processes
    <2> HIDE DEF t, e
    <2> QED
      BY <1>2, <2>1, <2>2
  <1>11. ASSUME NEW p \in Pids, ShutdownSockets(p) PROVE FALSE
    <2> DEFINE t == [proc[p] EXCEPT !.pc = "unlink", !.bound = FALSE]
    <2>1. Become(p, t)
      BY <1>11 DEF ShutdownSockets
    <2>2. t.pc = "unlink"
      BY <1>1 DEF Processes
    <2> HIDE DEF t
    <2> QED
      BY <2>1, <2>2, OtherLabel
  <1>12. ASSUME NEW p \in Pids,
                RemoveStale(p) \/ WritePid(p) \/ StayForeground(p) \/ ForkFails(p)
                \/ ParentExits(p) \/ LeaveLoop(p) \/ UnlinkPid(p)
         PROVE  FALSE
    <2>1. \/ Goto(p, "pidopen") \/ Goto(p, "sockets") \/ Goto(p, "loop") \/ Goto(p, "close")
          \/ Die(p, "dead") \/ Die(p, "left") \/ Die(p, "stopped")
      BY <1>12 DEF RemoveStale, WritePid, StayForeground, ForkFails, ParentExits, LeaveLoop, UnlinkPid
    <2> QED
      BY <1>3, <2>1, OtherGoto, OtherEnd
  <1>13. ASSUME NEW p \in Pids, SigTerm(p) PROVE FALSE
    <2> DEFINE t == [proc[p] EXCEPT !.running = FALSE]
    <2>1. Become(p, t) /\ Live(p)
      BY <1>13 DEF SigTerm
    <2>2. t.pc = proc[p].pc
      BY <1>1 DEF Processes
    <2> HIDE DEF t
    <2>3. t.pc # "refused"
      BY <2>1, <2>2 DEF Live, Ends
    <2> QED
      BY <2>1, <2>3, OtherLabel
  <1>14. ASSUME NEW p \in Pids, NEW f \in ConfFiles, SigHup(p, f) PROVE FALSE
    <2> DEFINE g == FileNamed(proc[p].configfile, f)
               t == Rehashed(proc[p], g)
    <2>1. Become(p, t) /\ Live(p)
      BY <1>14 DEF SigHup
    <2>2. g \in AllFiles
      BY FileNamedGood
    <2> HIDE DEF g
    <2>3. t = Ended("dead") \/ t.pc = proc[p].pc
      BY <1>1, <2>2, RehashedGood
    <2>4. t.pc # "refused"
      BY <1>3, <2>1, <2>3, EndedGood DEF Live, Ends
    <2> HIDE DEF t
    <2> QED
      BY <2>1, <2>4, OtherLabel
  <1>15. ASSUME NEW p \in Pids, SigKill(p) \/ UseFreed(p) PROVE FALSE
    BY <1>3, <1>15, OtherEnd DEF SigKill, UseFreed
  <1>16. CASE UNCHANGED lvars
    BY <1>16 DEF lvars
  <1> QED
    BY <1>4, <1>5, <1>6, <1>7, <1>8, <1>9, <1>10, <1>11, <1>12, <1>13, <1>14, <1>15, <1>16
       DEF LNext, ProcStep, Signal

(***************************************************************************)
(* WritePID refuses to start only while another process is running, for    *)
(* any number of processes and PID files, if SIGHUP and SIGKILL spare      *)
(* processes that are starting.  The condition is needed: a process killed *)
(* between fopen and fclose leaves an empty file, which reads as process 0.*)
(***************************************************************************)
THEOREM RefusalIsJustified ==
    ASSUME SignalAt \intersect Starts = {}
    PROVE  LSpec => RefusedMeansRunning
  <1>1. ASSUME PidInv, [LNext]_lvars, NEW p \in Pids,
               proc[p].pc # "refused", proc'[p].pc = "refused"
        PROVE  \E q \in Pids \ {p} : Live(q)
    <2> DEFINE file == FileAt(Path(p))
    <2>1. CheckPid(p) /\ Die(p, "refused")
      BY <1>1, OnlyCheckRefuses DEF PidInv
    <2>2. proc[p].pc = "pidcheck"
      BY <2>1 DEF CheckPid
    <2>3. file # Absent /\ Running(p, file.text)
      <3>1. proc'[p] = Ended("refused") /\ proc[p] \in Processes
        BY <1>1, <2>1 DEF Die, Become, PidInv, LifeInv
      <3>2. ~Goto(p, "pidopen") /\ ~Goto(p, "pidstale")
        BY <1>1, OtherGoto DEF PidInv
      <3> QED
        BY <2>1, <3>2 DEF CheckPid
    <2>4. Path(p) \in Paths /\ file = pidfile[Path(p)]
      BY <2>3 DEF FileAt
    <2> HIDE DEF file
    <2>5. CASE file.text = 0
      <3>1. PICK q \in Pids : Holds(proc[q], Path(p), file.ino)
        BY <1>1, <2>3, <2>4, <2>5 DEF PidInv, EmptyIsOpen
      <3>2. proc[q].pc = "pidwrite"
        BY <3>1 DEF Holds
      <3> QED
        BY <2>2, <3>2 DEF Live, Ends
    <2>6. CASE file.text # 0
      <3>1. file.text \in Pids /\ Live(file.text)
        BY <2>3, <2>6 DEF Running
      <3>2. proc[file.text].pc \notin Early
        BY <1>1, <2>4, <3>1 DEF PidInv, WrittenIsPast
      <3>3. file.text # p
        BY <2>2, <3>2 DEF Early
      <3> QED
        BY <3>1, <3>3
    <2> QED
      BY <2>5, <2>6
  <1> DEFINE Step == \A p \in Pids : proc[p].pc # "refused" /\ proc'[p].pc = "refused"
                        => \E q \in Pids \ {p} : Live(q)
  <1>2. PidInv /\ [LNext]_lvars => [Step]_lvars
    BY <1>1
  <1>3. PidInv /\ [LNext]_lvars => PidInv'
    BY NextPidInv
  <1>4. LSpec => [][Step]_lvars
    BY <1>2, <1>3, InitPidInv, PTL DEF LSpec
  <1> QED
    BY <1>4 DEF RefusedMeansRunning

=============================================================================
