---------------------------- MODULE MCHostStack ----------------------------
EXTENDS HostStack

\* Lines of a trace: reads and writes, flushes, text that does not match.
RW(tick, offset, length) ==
  [type |-> "rw", tick |-> tick, offset |-> offset, length |-> length]
Flush(tick) == [RW(tick, 0, 0) EXCEPT !.type = "flush"]
Text == [RW(0, 0, 0) EXCEPT !.type = "unmatched"]
Unknown == [RW(0, 0, 0) EXCEPT !.type = "unknown"]

Lines == <<Text, RW(3, 0, 4), RW(3, 2, 2), Flush(4), Text, RW(3, 13, 1),
           RW(9, 6, 2), Text>>

Trace == [kind |-> "trace", mode |-> "sync", depth |-> 2, maxIO |-> 0,
          limit |-> 100, lines |-> Lines, period |-> 0]

Traces ==
  {[Trace EXCEPT !.mode = m, !.maxIO = x, !.limit = l] :
     m \in {"sync", "async", "strict"}, x \in {0, 3}, l \in {2, 100}}
  \cup {[Trace EXCEPT !.mode = "async", !.depth = 3, !.period = 4],
        [Trace EXCEPT !.mode = "strict", !.lines = <<RW(3, 0, 4), RW(2, 2, 2), RW(5, 6, 2)>>],
        [Trace EXCEPT !.lines = <<Text>>],
        [Trace EXCEPT !.lines = <<RW(0, 0, 1), Unknown>>]}

Generated == [kind |-> "generator", type |-> "sequential", depth |-> 2,
              ioSize |-> 9, runtime |-> 0, blocksize |-> 3, blockalign |-> 0,
              offset |-> 3, size |-> 5, period |-> 0]

Generators ==
  {Generated, [Generated EXCEPT !.blockalign = 4, !.size = 7, !.period = 3],
   [Generated EXCEPT !.type = "random", !.ioSize = 4, !.size = 0],
   [Generated EXCEPT !.runtime = 6, !.depth = 3],
   [Generated EXCEPT !.offset = 10]}

Drivers == {[kind |-> "driver", requests |-> {1, 2, 3}, calls |-> 0,
             period |-> 0],
            [kind |-> "driver", requests |-> {1, 2}, calls |-> 3,
             period |-> 0]}

AllWorkloads == Traces \cup Generators \cup Drivers
=============================================================================
