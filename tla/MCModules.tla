----------------------------- MODULE MCModules ------------------------------
(* Instances of Modules for TLC. *)
EXTENDS Modules

\* Two objects that declare the same name, one with a name of its own, one
\* without _minfo, one that does not exist.
McPaths    == {"a", "b", "c", "plain", "absent"}
McOpens    == {"a", "b", "c", "plain"}
McDeclares == {"a", "b", "c"}
McNameOf   == [p \in McPaths |-> IF p \in {"a", "b"} THEN "ab" ELSE "c"]

Block(path, name) == [path |-> path, name |-> name]

McConfigs ==
    {<<Block("a", NULL), Block("absent", "c"), Block(NULL, "b")>>,
     <<Block("plain", NULL), Block("c", NULL), Block("c", NULL), Block("a", "b")>>,
     <<Block("b", NULL), Block(NULL, NULL)>>}
=============================================================================
