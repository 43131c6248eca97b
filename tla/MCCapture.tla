------------------------------ MODULE MCCapture ------------------------------
EXTENDS Capture, LockRegions

\* The arithmetic of LockRegions, for the sizes up to a bound.
ASSUME RegionsAreChecked == CheckedUpTo(6)
=============================================================================
