----------------------------- MODULE MCPlayback -----------------------------
EXTENDS Playback

\* The first, an inner and the last position, with and without the event for
\* the end of a playback.
MCNotifySets == {{}, {0, 1, 2}, {0, OffsetStop}, {2}}
=============================================================================
