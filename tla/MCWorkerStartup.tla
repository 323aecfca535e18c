---------------------------- MODULE MCWorkerStartup ----------------------------
(* A small instance of WorkerStartup for TLC. *)
EXTENDS WorkerStartup

CONSTANTS handler, watcher

MCCallers == {handler, watcher}

MCHosts ==
    {[platform |-> "linux", resource |-> TRUE, seccomp |-> TRUE, nofile |-> <<64, -1>>],
     [platform |-> "darwin", resource |-> TRUE, seccomp |-> TRUE, nofile |-> <<256, -1>>],
     [platform |-> "win32", resource |-> FALSE, seccomp |-> FALSE, nofile |-> <<-1, -1>>]}

Empty == [type |-> "none", name |-> "a", shape |-> "good", entry |-> "absent",
          command |-> "absent", profile |-> NoProfile, mode |-> "absent",
          outside |-> FALSE, permissions |-> <<>>]

Api == [Empty EXCEPT !.type = "api", !.entry = "good"]
Wrk == [Empty EXCEPT !.type = "worker", !.command = "good"]

Asking(n, entries) == [Wrk EXCEPT !.permissions = [x \in {n} |-> entries]]

MCManifests ==
    {Empty, Api, Wrk,
     [Empty EXCEPT !.type = "other"],
     [Wrk EXCEPT !.shape = "bad"],
     [Api EXCEPT !.command = "good"],
     [Api EXCEPT !.mode = "out_of_process", !.command = "good"],
     [Api EXCEPT !.outside = TRUE],
     [Api EXCEPT !.outside = TRUE, !.name = "b"],
     [Asking("network", {"loopback"}) EXCEPT !.name = "b", !.profile = "restricted"],
     [Wrk EXCEPT !.profile = "strict"],
     [Wrk EXCEPT !.profile = "none"],
     [Wrk EXCEPT !.profile = "Bad Format"],
     Asking("network", {"loopback", "internet"}),
     Asking("fs", {"read:/tmp", "Read All"}), Asking("fs", {""}), Asking("gpu", {})}
===============================================================================
