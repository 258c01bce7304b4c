---------------------------- MODULE MCNamespaces ----------------------------
EXTENDS Namespaces

MCLbaSizes == <<1, 2>>
Request(size, format) == [size |-> size, format |-> format]

Host == [disk |-> TRUE, serial |-> TRUE, defaults |-> 2, maxNs |-> 3, ranges |-> 1,
         lbas |-> {0, 1, 3}, blocks |-> {1, 2}, max |-> 3, ops |-> {}, smart |-> {NSID_ALL},
         requests |-> {Request(2, 1), Request(2, 2)}]
\* Space comes and goes.
Managing == [Host EXCEPT !.max = 5, !.defaults = 0, !.disk = FALSE, !.lbas = {0},
               !.ops = {"create", "delete", "attach"}]
\* The same with sizes of which a part of a page is left over.
Uneven == [Managing EXCEPT !.requests = {Request(3, 2), Request(3, 1), Request(2, 1)},
               !.ops = {"create", "delete"}]
\* One namespace is used, the other makes place for new ones, which are used too.
Replacing == [Host EXCEPT !.max = 4, !.disk = FALSE, !.maxNs = 2, !.lbas = {1}, !.blocks = {1, 2},
               !.requests = {Request(2, 2), Request(3, 1)},
               !.ops = {"create", "delete", "attach", "write"}]
\* Blocks are read, written, compared and trimmed while others are managed.
Using == [Host EXCEPT !.max = 2, !.ops = {"read", "write", "compare", "flush", "trim"},
            !.maxNs = 2]
Trimming == [Using EXCEPT !.ranges = 2, !.ops = {"read", "trim"}, !.lbas = {0}]
Sharing == [Host EXCEPT !.blocks = {1}, !.max = 4, !.defaults = 1, !.maxNs = 1, !.lbas = {1},
              !.smart = {1, NSID_ALL},
              !.ops = {"read", "write", "detach", "attach", "delete", "smart"}]
\* Formats, and commands that do not wait for each other.
Reckless == [Host EXCEPT !.blocks = {1}, !.serial = FALSE, !.ranges = 2, !.maxNs = 2, !.smart = {1}, !.lbas = {0},
               !.ops = {"format", "create", "delete", "write", "flush", "trim", "smart"}]

MCHosts == {Managing, Uneven, Replacing, Using, Trimming, Sharing, Reckless}

\* Hosts that the code does not serve as it should (bug_*.cfg).
FormattingHosts == {[Host EXCEPT !.serial = FALSE, !.defaults = 1, !.maxNs = 1,
                       !.lbas = {0}, !.ops = {"format", "write"}]}
UnevenHosts == {Uneven}
LastBlockHosts == {[Replacing EXCEPT !.defaults = 0, !.maxNs = 1, !.lbas = {2}, !.blocks = {1}]}
LogHosts == {[Host EXCEPT !.smart = {1}, !.ops = {"smart", "delete"}]}
TrimmingHosts == {Trimming}
=============================================================================
