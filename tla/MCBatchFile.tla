---------------------------- MODULE MCBatchFile ----------------------------
EXTENDS BatchFile

\* A mixed call (one cached, one streamed file) and a media group, in both orders.
MCShapes ==
    {[stream |-> <<FALSE, TRUE, FALSE>>, key |-> <<NoKey, NoKey, NoKey>>],
     [stream |-> <<FALSE, FALSE, TRUE>>, key |-> <<"album", "album", NoKey>>],
     [stream |-> <<TRUE, FALSE, FALSE>>, key |-> <<NoKey, "album", "album">>],
     [stream |-> <<FALSE, FALSE, FALSE>>, key |-> <<"album", "album", "other">>]}
=============================================================================
