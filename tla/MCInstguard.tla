---------------------------- MODULE MCInstguard ----------------------------
(* Bounds for Instguard: see README.md, "Bounds". *)
EXTENDS Instguard

Copy(path, package, version) == [path |-> path, package |-> package, version |-> version]

\* A good copy, a poisoned one below it, one pinned to no version, the poisoned one renamed, and
\* the poisoned one in a workspace.
FiveCopies == {Copy(<<"a">>, "a", "1"), Copy(<<"b", "a">>, "a", "2"), Copy(<<"b">>, "b", ""), Copy(<<"c">>, "a", "2"),
               Copy(<<>>, "a", "2")}
PoisonedA == {<<"a", "2">>}
WeakA == {<<"a", "1">>}

SomeManifests == [deps : SUBSET {"a", "b"},
                  scripts : {{}, {[name |-> "postinstall", matches |-> Critical]}, {[name |-> "test", matches |-> Critical]}}]

Ages == (<<"a", "1">> :> -1) @@ (<<"c", "2">> :> 3)

Line(comment, tool, quoted, pipe) == [comment |-> comment, tool |-> tool, quoted |-> quoted, pipe |-> pipe]
ThreeBuildLines == {Line(FALSE, "plain", FALSE, FALSE), Line(FALSE, "none", FALSE, TRUE), Line(TRUE, "hidden", TRUE, FALSE)}

ThreeLogLines == {[hook |-> "install", named |-> n, lifecycle |-> l, early |-> TRUE] : <<n, l>> \in {<<TRUE, FALSE>>, <<FALSE, TRUE>>, <<FALSE, FALSE>>}}
=============================================================================
