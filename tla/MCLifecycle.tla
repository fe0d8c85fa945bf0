---------------------------- MODULE MCLifecycle -----------------------------
(* Instances of Lifecycle for TLC. *)
EXTENDS Lifecycle

\* The user tftp belongs to the group users; there is a group tftp as well.
McAccount   == {"root", "tftp", "users"}
McPrimaryGroup == [a \in McAccount |-> IF a = "root" THEN "root" ELSE "users"]
McPaths     == {"run", "tmp"}
McOpenPaths == {"tmp"}

Conf(user, group, path) ==
    [form |-> "good", blocks |-> <<"server", "listen">>, directory |-> TRUE, daemonize |-> TRUE,
     user |-> user, group |-> group, pidfile |-> path]

\* Good files, without and with a user and group to change to; one whose listen
\* block gets lost; one a rehash takes for an addition to the old object; one
\* that is refused; one with a syntax error.
McConfFiles ==
    {Conf("none", "none", "unset"), Conf("tftp", "tftp", "tmp"),
     [Conf("none", "none", "unset") EXCEPT !.blocks = <<"listen", "server">>],
     [Conf("none", "none", "unset") EXCEPT !.blocks = <<"listen">>],
     [Conf("none", "none", "unset") EXCEPT !.directory = FALSE],
     Broken}

\* Another configuration, that stays in the foreground.
McOtherFiles == [other |-> [Conf("tftp", "none", "tmp") EXCEPT !.daemonize = FALSE]]

\* Started plainly, with options, with the name of a file that does not exist,
\* and with an option that ends it.
McCommandLines ==
    {<<"nbstftp">>, <<"nbstftp", "-f", "-c", "other">>, <<"nbstftp", "-c", "absent">>,
     <<"nbstftp", "-f", "-c">>}

Plainly == {<<"nbstftp">>}
NoFiles == [name \in {} |-> Missing]

OneConf == {Conf("none", "none", "unset")}

(***************************************************************************)
(* The loops over the blocks of a configuration and over the arguments, as *)
(* the code goes through them, against what Lifecycle says they compute.   *)
(***************************************************************************)
ParsedInOrder(c, f) ==
    FoldLeft(LAMBDA d, b : IF b = "server" THEN ServerEntry(f) ELSE ListenEntry(d), c, f.blocks)

HandleArgument(s, arg, last) ==
    CASE arg = "-h" \/ (arg = "-c" /\ last) -> [s EXCEPT !.exit = TRUE]
      [] arg = "-f"           -> [s EXCEPT !.nofork = TRUE]
      [] arg = "-c" /\ ~last -> [s EXCEPT !.wait_for_conf = TRUE]
      [] OTHER                -> IF s.wait_for_conf THEN [s EXCEPT !.configfile = arg] ELSE s

ArgumentsInOrder(args) ==
    FoldLeft(LAMBDA s, i : IF s.exit THEN s ELSE HandleArgument(s, args[i], i = Len(args)),
             [exit |-> FALSE, nofork |-> FALSE, wait_for_conf |-> FALSE, configfile |-> "default"],
             [i \in 1..Len(args) |-> i])

ASSUME ParsedAgrees ==
    \A n \in 0..5 : \A blocks \in [1..n -> {"server", "listen"}] :
        LET f == [Conf("tftp", "none", "tmp") EXCEPT !.blocks = blocks]
        IN  \A c \in {NoConfig, ServerEntry(Conf("none", "tftp", "run"))} :
                Parsed(c, f) = ParsedInOrder(c, f)

ASSUME ArgumentsAgree ==
    \A n \in 0..5 : \A args \in [1..n -> Options \union {"a", "b"}] :
        LET s == ArgumentsInOrder(args)
            t == HandleArguments(args)
        IN  /\ s.exit = t.exit
            /\ ~s.exit => s.nofork = t.nofork /\ s.configfile = t.configfile
=============================================================================
