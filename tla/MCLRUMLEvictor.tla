---------------------------- MODULE MCLRUMLEvictor ----------------------------
(* Instance of LRUMLEvictor for TLC.                                          *)
EXTENDS LRUMLEvictor

CONSTANTS h1, h2, h3

\* With the scheduler, requests have no policy of their own; without it they ask
\* for lru, rrip or fifo, or all for lru and then for longer.
MCWorkloads ==
  {[scheduler |-> TRUE,  kinds |-> {"plain"}, hashes |-> {h1, h2}, scores |-> {0, 1},
    maxTime |-> 2, maxOutdated |-> 2],
   [scheduler |-> FALSE, kinds |-> {"use_lru", "use_rrip", "use_fifo"},
    hashes |-> {h1, h2}, scores |-> {0}, maxTime |-> 2, maxOutdated |-> 1],
   [scheduler |-> FALSE, kinds |-> {"use_lru"}, hashes |-> {h1, h2, h3},
    scores |-> {0}, maxTime |-> 3, maxOutdated |-> 2]}
=============================================================================
