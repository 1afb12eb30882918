---------------------------- MODULE MCAuthwatch ----------------------------
(* Bounds for Authwatch: see README.md, "Bounds". *)
EXTENDS Authwatch

PackagedOnce == ("sshd" :> "v1") @@ ("pam_unix" :> "v1") @@ ("pam_extra" :> "none")
FiveMachines ==
    {[family |-> f, tools |-> t] : <<f, t>> \in {<<"rpm", {"rpm"}>>, <<"rpm", {}>>, <<"deb", {"dpkg"}>>,
                                                 <<"deb", {"dpkg", "debsums"}>>, <<"unknown", {}>>}}
OneKeyLine == {[key |-> TRUE, listed |-> FALSE]}
TwoInitLines == {[file |-> f, comment |-> FALSE, assigns |-> a] : <<f, a>> \in {<<"ld.so.preload", FALSE>>, <<"shell", TRUE>>}}
OneWatch == "/etc/pam.d" :> {"w", "a"}
=============================================================================
