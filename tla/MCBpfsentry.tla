---------------------------- MODULE MCBpfsentry ----------------------------
(* Bounds for Bpfsentry: see README.md, "Bounds". *)
EXTENDS Bpfsentry

Prog(id, name, type, tag, helpers) == [id |-> id, name |-> name, type |-> type, tag |-> tag, helpers |-> helpers]

\* An agent's program, loaded twice; one under its name with other code; one without tag or name;
\* one that is at no hook and uses a suspicious helper.
FivePrograms ==
    {Prog(1, "agent", "kprobe", "t1", {}), Prog(2, "agent", "kprobe", "t1", {}), Prog(3, "agent", "kprobe", "t2", {}),
     Prog(4, "", "xdp", "", {}), Prog(5, "filter", "socket_filter", "t3", {"override_return"})}
=============================================================================
