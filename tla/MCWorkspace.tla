------------------------------ MODULE MCWorkspace ------------------------------
(* Constants for model-checking Workspace.                                 *)
EXTENDS Workspace

Activating(d, fs) == [op |-> "activate", dataset |-> d, feeds |-> fs]
Reloading == [op |-> "reload"]
Posting == [op |-> "live"]
Unused == [op |-> "none"]
OnDataset(op, d) == [op |-> op, dataset |-> d]
OnFeed(op, f) == [op |-> op, feed |-> f]

Both == {"d1", "d2"}
Saved == [dataset |-> "d1", feeds |-> {"f"}]

\* A scenario rebuilt next to jobs that load its feed.
CrashRequests == <<OnFeed("build", "f"), Activating("d2", {"g"}), OnDataset("update", "d1"), Unused>>
ReloadRequests == <<OnFeed("build", "f"), OnDataset("update", "d1"), Reloading, Unused>>
\* The command line at work while the API loads and a scenario is built.
CliRequests == <<Reloading, OnDataset("cli-update", "d1"), OnDataset("cli-compile", "d1"), OnFeed("build", "f")>>
\* Everything that meets a file another call removes.
LossRequests == <<Activating("d2", {"f"}), OnFeed("remove", "f"),
                  OnDataset("delete", "d1"), Posting>>
\* Jobs one after the other: what one leaves undone the next ones meet.
JobRequests == <<Activating("d2", {"g"}), OnDataset("update", "d2"), Reloading, Unused>>
\* A feed removed while the runtime that was loaded with it goes on.
RemovalRequests == <<OnFeed("remove", "f"), Reloading>>
BothFeeds == [dataset |-> "d1", feeds |-> {"f", "g"}]

Meeting == {CrashRequests, ReloadRequests, CliRequests, LossRequests, JobRequests}
Removing == {RemovalRequests}
===============================================================================
