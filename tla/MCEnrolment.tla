----------------------------- MODULE MCEnrolment -----------------------------
(* Two machines of an estate, of which one is enrolled, in two runs.        *)
EXTENDS Enrolment

Good == [name |-> "auxiliary", uid |-> 998, gid |-> 998, shell |-> "/bin/sh",
         home |-> "/nonexistent", password |-> "locked", groups |-> {}]
TheAccounts ==
    {Good, [Good EXCEPT !.groups = {27}], [Good EXCEPT !.password = "empty"],
     [Good EXCEPT !.uid = 1000]}

Node(path, kind, uid, gid, mode) ==
    [path |-> path, kind |-> kind, uid |-> uid, gid |-> gid, mode |-> mode]
Chain(directory) ==
    <<Node(<<>>, "directory", 0, 0, {"owner"}), directory,
      Node(<<"keys", "auxiliary">>, "file", 0, 0, {"owner"})>>
\* A sound directory, and directories that one check of custody.rs refuses: a
\* user identifier used again, a group that is not the account's own, a link.
Directories ==
    {Node(<<"keys">>, "directory", 0, 0, {"owner"}), Node(<<"keys">>, "directory", 998, 0, {}),
     Node(<<"keys">>, "directory", 0, 27, {"owner", "group"}),
     Node(<<"keys">>, "directory", 0, 0, {"owner", "world"}), Node(<<"keys">>, "link", 0, 0, {})}

Personal == [shape |-> "plain", options |-> {}, command |-> "none", algorithm |-> "ssh-ed25519",
             key |-> "key"]

TheBeginnings ==
    [artifact : {<<>>}, anchor : {<<>>}, replay : {<<>>}, rule : {<<>>}, relay : {<<>>},
     account : {<<>>, <<Good>>, <<[Good EXCEPT !.groups = {27}]>>},
     chain : {Chain(d) : d \in Directories},
     lines : {<<>>, <<Personal>>}, sheets : {<<>>, <<SheetOf("m1", "host", 22, "other")>>},
     agent : {<<>>, <<"started">>}]

\* Rendered rules with more settings, or with the settings of another account,
\* and rules that grant more. The option with its value after a space is read by
\* its value.
Setting(bound, words) == [bound |-> bound, words |-> words]
TheRules ==
    {[RenderRule EXCEPT !.defaults = @ \union {Setting("everyone", <<"env_keep+=X">>)}],
     [RenderRule EXCEPT !.defaults = @ \union {Setting("auxiliary", <<"env_keep", "+=", "X">>)}],
     [RenderRule EXCEPT !.defaults = {Setting("other", d.words) : d \in @}],
     [RenderRule EXCEPT !.specifications[1].command = "ALL"],
     [RenderRule EXCEPT !.specifications = @ \o <<[@[1] EXCEPT !.command = "wildcard"]>>]}

Identity(m, p) == [machine |-> m, print |-> p]
Placement(role, m) == [role |-> role, endpoint |-> m]
Perimeter ==
    [declared |-> <<Identity("m1", "p1"), Identity("m2", "p2")>>, cleared |-> {"m1"},
     placements |-> <<Placement("agent", "m1"), Placement("controller", "m1")>>]
ThePerimeters ==
    {Perimeter, [Perimeter EXCEPT !.cleared = {"m2"}],
     [Perimeter EXCEPT !.declared[2].print = "p1"],
     [Perimeter EXCEPT !.placements = <<Placement("agent", "m2")>>]}

Report == [machine |-> "m1", print |-> "p1", changed |-> FALSE, operation |-> "diagnose",
           sequence |-> 1]
TheReports ==
    {Report, [Report EXCEPT !.machine = "m2"], [Report EXCEPT !.print = "p2"],
     [Report EXCEPT !.changed = TRUE], [Report EXCEPT !.sequence = 0]}
=============================================================================
