-------------------------- MODULE MCStreamMonitor --------------------------
(* Small instances of StreamMonitor for TLC. *)
EXTENDS StreamMonitor

Call(t, p, k, v) == [tool |-> t, param |-> p, keyword |-> k, verdict |-> v]
Message(t, c) == [text |-> t, calls |-> c]
ReadFile == Call("Read", "file", FALSE, "safe")
ListFiles == Call("Bash", "list", FALSE, "safe")
EditFile == Call("Edit", "file", FALSE, "safe")
Flagged == Call("Bash", "flagged", FALSE, "flagged")
Slow == Call("Bash", "slow", TRUE, "undecided")

MCMessages ==
    {Message("plain", <<>>), Message("stuck", <<>>),
     Message("plain", <<ReadFile>>), Message("plain", <<ListFiles>>),
     Message("plain", <<EditFile>>), Message("plain", <<Slow>>),
     Message("plain", <<Flagged>>), Message("plain", <<Flagged, ReadFile>>),
     Message("done", <<Flagged>>)}

Setup(e, n, g, r) == [exempt |-> e, nonGit |-> n, gate |-> g, retries |-> r]
MCSetups ==
    {Setup(FALSE, FALSE, TRUE, 0), Setup(FALSE, TRUE, FALSE, 2),
     Setup(TRUE, TRUE, TRUE, 0)}
=============================================================================
