----------------------------- MODULE MC_SparkStore -----------------------------
(* TLC instance of what Sparkboard's sampler threads keep and collect.  *)
EXTENDS SparkStore

MCRanges == {2, 5, 9, 11}

\* The search goes no further than the first logged failure: past it the
\* invariants promise nothing.
NothingLogged == ~logged

\* Cards that report their memory and cards that do not, with and without a UUID.
Card(uuid, used) ==
    [uuid |-> uuid, total |-> IF used = -1 THEN -1 ELSE 4, used |-> used, free |-> IF used = -1 THEN -1 ELSE 4 - used]
MCGpus == {Card(-1, -1), Card(1, -1), Card(2, -1), Card(2, 3)}
MCProcs == [on : {1, 2}, holds : {1}, named : BOOLEAN, told : BOOLEAN]

Entry(public, private, family) == [public |-> public, private |-> private, family |-> family]
MCPorts == {Entry(80, 80, 4), Entry(80, 80, 6), Entry(81, 81, 4), Entry(-1, 90, 4), Entry(83, 90, 4)}
=================================================================================
