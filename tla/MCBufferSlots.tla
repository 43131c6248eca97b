---------------------------- MODULE MCBufferSlots ----------------------------
EXTENDS BufferSlots, WaveFormats, TLC

ThreadSymmetry == Permutations(Threads)

\* Formats with at most one of rate, byte rate and block size wrong; "tail"
\* is what follows a header.
Wrongs == {<<2, 0, 0>>, <<1, 0, 0>>, <<2, -2, 0>>, <<2, 0, 1>>}
FormatsOf(tags, tails) ==
  {LET align == (n * bits) \div 8
   IN [wFormatTag |-> tag, nChannels |-> n, nSamplesPerSec |-> w[1],
       nAvgBytesPerSec |-> (w[1] * align + w[2]) % DWORDs,
       nBlockAlign |-> align + w[3], wBitsPerSample |-> bits, cbSize |-> cb,
       wValidBitsPerSample |-> IF tail[1] = 1 THEN bits ELSE tail[1],
       dwChannelMask |-> tail[2], SubFormat |-> tail[3]] :
     tag \in tags, n \in {0, 1, 2, 4, 6, 8}, bits \in {0, 8, 12, 16, 24, 32},
     w \in Wrongs, cb \in {21, ExtExtraSize, ExtensibleSize}, tail \in tails}

MCMasks == UNION {Masks(c) : c \in Configs} \cup {{"Other"}}
MCFormats ==
  FormatsOf(Encodings, {<<0, {}, "PCM">>})
    \cup FormatsOf({"EXTENSIBLE"}, {0, 1, 20} \X MCMasks \X Encodings)

\* What an application may have beside what it was told.
Reportable(d) ==
  {g \in {d} \cup {[d EXCEPT !.dwChannelMask = Back, !.SubFormat = "Other"]} :
     MayReport(d, g)}

ASSUME FormatsAreChecked ==
  \A f \in MCFormats, exts \in SUBSET Extensions :
    /\ FramesAreBlocks(f, exts)
    /\ \A bytes \in {0, 1, 17, 40, 63} : BuffersAreWhole(f, bytes, exts)
    /\ \A g \in Reportable(Stored(f)) :
         ReportedIsAccepted(f, g, exts) /\ CapturedIsPlayable(f, g, exts)
    /\ EmulationIsExact(f, exts) /\ EmulationFits(f, exts)
    /\ AdvertisedIsAccepted(f, exts)
=============================================================================
