--------------------------- MODULE MCPromRegistry ---------------------------
EXTENDS PromRegistry, Integers

\* Each worker registers metrics of its own names.
OwnMetricNames == [t \in Threads |-> {ToString(t)}]

\* Both workers register a metric named "requests".
SharedMetricNames == [t \in Threads |-> {"requests"}]

\* The words of the rows of /proc/self/limits, as the kernel names them.
WMax == <<"M", "a", "x">>
Wcpu == <<"c", "p", "u">>
Wtime == <<"t", "i", "m", "e">>
Wfile == <<"f", "i", "l", "e">>
Wsize == <<"s", "i", "z", "e">>
Wdata == <<"d", "a", "t", "a">>
Wstack == <<"s", "t", "a", "c", "k">>
Wcore == <<"c", "o", "r", "e">>
Wresident == <<"r", "e", "s", "i", "d", "e", "n", "t">>
Wset == <<"s", "e", "t">>
Wprocesses == <<"p", "r", "o", "c", "e", "s", "s", "e", "s">>
Wopen == <<"o", "p", "e", "n">>
Wfiles == <<"f", "i", "l", "e", "s">>
Wlocked == <<"l", "o", "c", "k", "e", "d">>
Wmemory == <<"m", "e", "m", "o", "r", "y">>
Waddress == <<"a", "d", "d", "r", "e", "s", "s">>
Wspace == <<"s", "p", "a", "c", "e">>
Wlocks == <<"l", "o", "c", "k", "s">>
Wpending == <<"p", "e", "n", "d", "i", "n", "g">>
Wsignals == <<"s", "i", "g", "n", "a", "l", "s">>
Wmsgqueue == <<"m", "s", "g", "q", "u", "e", "u", "e">>
Wnice == <<"n", "i", "c", "e">>
Wpriority == <<"p", "r", "i", "o", "r", "i", "t", "y">>
Wrealtime == <<"r", "e", "a", "l", "t", "i", "m", "e">>
Wtimeout == <<"t", "i", "m", "e", "o", "u", "t">>
Wseconds == <<"s", "e", "c", "o", "n", "d", "s">>
Wbytes == <<"b", "y", "t", "e", "s">>
Wus == <<"u", "s">>

Row(ws, soft, hard, units) ==
  [name |-> PL!Phrase(<<WMax>> \o ws), soft |-> soft, hard |-> hard, units |-> units]

\* The sixteen rows of fs/proc/base.c's lnames[], in its order, with the
\* open-files and address-space soft limits given; -1 is unlimited.
KernelLimits(fds, as) ==
  << Row(<<Wcpu, Wtime>>, -1, -1, Wseconds),
     Row(<<Wfile, Wsize>>, -1, -1, Wbytes),
     Row(<<Wdata, Wsize>>, -1, -1, Wbytes),
     Row(<<Wstack, Wsize>>, 8388608, -1, Wbytes),
     Row(<<Wcore, Wfile, Wsize>>, 0, -1, Wbytes),
     Row(<<Wresident, Wset>>, -1, -1, Wbytes),
     Row(<<Wprocesses>>, 63435, 63435, Wprocesses),
     Row(<<Wopen, Wfiles>>, fds, 524288, Wfiles),
     Row(<<Wlocked, Wmemory>>, 8388608, 8388608, Wbytes),
     Row(<<Waddress, Wspace>>, as, -1, Wbytes),
     Row(<<Wfile, Wlocks>>, -1, -1, Wlocks),
     Row(<<Wpending, Wsignals>>, 63435, 63435, Wsignals),
     Row(<<Wmsgqueue, Wsize>>, 819200, 819200, Wbytes),
     Row(<<Wnice, Wpriority>>, 0, 0, PL!NoUnits),
     Row(<<Wrealtime, Wpriority>>, 0, 0, PL!NoUnits),
     Row(<<Wrealtime, Wtimeout>>, -1, -1, Wus) >>

\* A default process, and one capped at 1 GiB of address space (ten
\* digits, the widest value the 20-column field leaves the parser room for).
KernelFiles == {KernelLimits(1024, -1), KernelLimits(524288, 1073741824)}
=============================================================================
