------------------------------ MODULE MCModule ------------------------------
(***************************************************************************)
(* Tests on which TLC checks K6Module, for a boot VU and two others.       *)
(***************************************************************************)
EXTENDS K6Module

CONSTANTS boot, v1, v2, topo, bad

MCVUs == {boot, v1, v2}

\* The documented script: configure() in setup(), load() in the iterations.
Documented ==
  [late |-> {}, load |-> {"run"}, configure |-> {"setup"}, output |-> FALSE,
   exports |-> 0]

\* The same with a VU that k6 initialises during the test.
Growing == [Documented EXCEPT !.late = {v2}]

\* load() in the init context and in the iterations, configure() at any time, the
\* output, and a late VU.
Anything ==
  [late |-> {v2}, load |-> {"init", "run"}, configure |-> {"setup", "run"}, output |-> TRUE,
   exports |-> 2]

MCScripts == {Documented, Growing, Anything}

=============================================================================
