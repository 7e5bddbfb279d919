---------------------------- MODULE MCAsyncTask -----------------------------
(***************************************************************************)
(* The charge of an asynchronous task for TLC, in four settings: passes    *)
(* and deliveries that take turns, deliveries that overlap on a lost       *)
(* channel, a channel that users' requests ask, and a Suno task.           *)
(***************************************************************************)
EXTENDS AsyncTask

Video == [platform |-> "video", wallet |-> 1,
          subscription |-> 2, lost |-> FALSE, realtime |-> FALSE, serialised |-> FALSE, overlap |-> FALSE]

FourSettings ==
    {Video,
     [Video EXCEPT !.wallet = 2, !.subscription = 0, !.lost = TRUE, !.serialised = TRUE,
                   !.overlap = TRUE],
     [Video EXCEPT !.lost = TRUE, !.realtime = TRUE],
     [Video EXCEPT !.platform = "suno", !.wallet = 2, !.subscription = 0, !.serialised = TRUE]}
=============================================================================
