-------------------------- MODULE MCPlaygroundChat --------------------------
(***************************************************************************)
(* The playground for TLC: streams with a reload, the same with a store    *)
(* that fails, sources that go on after they are closed, an editor open    *)
(* across three requests, and answers that are not streamed.               *)
(***************************************************************************)
EXTENDS PlaygroundChat

Streams == [stream |-> TRUE, afterClose |-> FALSE, maxRequests |-> 2, maxChunks |-> 2,
            maxReloads |-> 1, maxEdits |-> 2, disks |-> {"works"}]

FiveWorlds ==
    {[Streams EXCEPT !.maxEdits = 1],
     [Streams EXCEPT !.maxChunks = 1, !.maxEdits = 1, !.disks = Disks],
     [Streams EXCEPT !.afterClose = TRUE, !.maxReloads = 0],
     [Streams EXCEPT !.maxRequests = 3, !.maxChunks = 1, !.maxReloads = 0, !.maxEdits = 1],
     [Streams EXCEPT !.stream = FALSE, !.maxRequests = 3, !.maxReloads = 0]}
=============================================================================
