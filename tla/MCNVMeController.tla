-------------------------- MODULE MCNVMeController --------------------------
EXTENDS NVMeController

\* I/O submission queues that exist at the start.
Q(c, prio) == [cq |-> c, prio |-> prio]
OneQueue == <<Q(1, "medium")>>
TwoQueues == <<Q(1, "medium"), Q(1, "medium")>>

IO == [queues |-> TwoQueues, arbitration |-> "rr", operations |-> {},
       depth |-> 2, deleteBusy |-> FALSE, commands |-> 5]
Admin == [IO EXCEPT !.queues = OneQueue, !.depth = 1, !.commands = 4,
            !.operations = {"createSQ", "deleteSQ", "createCQ", "deleteCQ",
                            "abort"}]
Delete == [IO EXCEPT !.queues = OneQueue, !.deleteBusy = TRUE, !.commands = 3,
             !.operations = {"createSQ", "deleteSQ", "abort"}]
Coalesce == [IO EXCEPT !.queues = OneQueue, !.commands = 3,
               !.operations = {"coalesce", "decoalesce"}]
SafetyHosts == {IO, Admin, Delete, Coalesce}

Progress == [IO EXCEPT !.commands = 3]
Weighted == [Progress EXCEPT !.arbitration = "wrr",
               !.queues = <<Q(1, "urgent"), Q(1, "high"), Q(1, "medium")>>]
Stopping == [Progress EXCEPT !.queues = OneQueue,
               !.operations = {"shutdown", "disable"}]
LiveHosts == {Progress, Weighted, Stopping}

DeepDelete == {[Delete EXCEPT !.operations = {"deleteSQ"}, !.depth = 3,
                              !.commands = 4]}
LowPriority == {[Weighted EXCEPT !.queues = <<Q(1, "high"), Q(1, "low")>>,
                                 !.commands = 2]}
=============================================================================
