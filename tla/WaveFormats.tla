----------------------------- MODULE WaveFormats -----------------------------
(***************************************************************************)
(* The sample formats of sound buffers, of the primary buffer and of       *)
(* capture buffers: which of an application's formats each accepts, the    *)
(* OpenAL format it makes of one, and what its GetFormat answers.  What    *)
(* the code looks up in nested switches is here a relation between a       *)
(* format and a pair of sample type and channel configuration; the set of  *)
(* the pairs a format is related to is the code's std::optional.           *)
(***************************************************************************)
EXTENDS LockRegions

CONSTANTS DSBFREQUENCY_MIN, DSBFREQUENCY_MAX, PrimaryBufSize

(* Four bytes is the largest block that a capture buffer has.              *)
ASSUME FrequencyAssumption ==
  /\ DSBFREQUENCY_MIN \in Nat \ {0} /\ DSBFREQUENCY_MAX \in Nat
  /\ 4 * DSBFREQUENCY_MAX < DWORDs

(* And 32 bytes the largest of any buffer: eight channels of four bytes.   *)
ASSUME PrimaryBufAssumption ==
  /\ PrimaryBufSize \in Nat /\ PrimaryBufSize + 32 <= DWORDs
  /\ DSBSIZE_MIN + 32 <= PrimaryBufSize /\ PrimaryBufSize <= DSBSIZE_MAX

\* What follows the header in a WAVEFORMATEXTENSIBLE, and all of it.
ExtExtraSize == 22
ExtensibleSize == 40

Encodings == {"PCM", "IEEE_FLOAT", "Other"}
Extensions == {"MCFORMATS", "FLOAT32"}
SampleTypes == {"UInt8", "Int16", "Float32"}
Configs == {"Mono", "Stereo", "RearStereo", "Quad", "X51", "X71"}

\* A channel mask is the set of its speakers.
Front == {"FRONT_LEFT", "FRONT_RIGHT"}
Back == {"BACK_LEFT", "BACK_RIGHT"}
Side == {"SIDE_LEFT", "SIDE_RIGHT"}
Center == {"FRONT_CENTER"}
Speakers == Front \cup Back \cup Side \cup Center \cup {"LOW_FREQUENCY", "Other"}

\* A WAVEFORMATEXTENSIBLE.  Of a format with another tag only the fields up
\* to cbSize are an application's.
WaveFormatsOf(W, D) ==
  [wFormatTag : Encodings \cup {"EXTENSIBLE"}, nChannels : W,
   nSamplesPerSec : D, nAvgBytesPerSec : D, nBlockAlign : W,
   wBitsPerSample : W, cbSize : W, wValidBitsPerSample : W,
   dwChannelMask : SUBSET Speakers, SubFormat : Encodings]
WaveFormats == WaveFormatsOf(0 .. WORDs - 1, 0 .. DWORDs - 1)

IsExtensible(f) == f.wFormatTag = "EXTENSIBLE"
Encoding(f) == IF IsExtensible(f) THEN f.SubFormat ELSE f.wFormatTag
Complete(f) == IsExtensible(f) => f.cbSize >= ExtExtraSize
Unpadded(f) ==
  IsExtensible(f) => f.wValidBitsPerSample \in {0, f.wBitsPerSample}

ValidRate(f) == f.nSamplesPerSec \in DSBFREQUENCY_MIN .. DSBFREQUENCY_MAX
BytesPerSec(f) == (f.nSamplesPerSec * f.nBlockAlign) % DWORDs

-----------------------------------------------------------------------------
(* ConvertFormat and GetALFormat.                                          *)

SampleBytes(type) ==
  CASE type = "UInt8" -> 1 [] type = "Int16" -> 2 [] type = "Float32" -> 4
Channels(config) ==
  CASE config = "Mono" -> 1 [] config \in {"Stereo", "RearStereo"} -> 2
    [] config = "Quad" -> 4 [] config = "X51" -> 6 [] config = "X71" -> 8
FrameSize(p) == Channels(p.config) * SampleBytes(p.type)

IsSample(type, f) ==
  /\ Encoding(f) = IF type = "Float32" THEN "IEEE_FLOAT" ELSE "PCM"
  /\ f.wBitsPerSample = 8 * SampleBytes(type)

Surround == Front \cup Center \cup {"LOW_FREQUENCY"}
Masks(config) ==
  CASE config = "Mono" -> {{}, Center}
    [] config = "Stereo" -> {{}, Front}
    [] config = "RearStereo" -> {Back}
    [] config = "Quad" -> {{}, Front \cup Back}
    [] config = "X51" -> {{}, Surround \cup Back, Surround \cup Side}
    [] config = "X71" -> {{}, Surround \cup Back \cup Side}

IsConfig(config, f) ==
  /\ f.nChannels = Channels(config)
  /\ IF IsExtensible(f) THEN f.dwChannelMask \in Masks(config)
     ELSE config \in {"Mono", "Stereo"}

ConvertFormat(f) ==
  {p \in [type : SampleTypes, config : Configs] :
     Unpadded(f) /\ IsSample(p.type, f) /\ IsConfig(p.config, f)}

\* The format that is kept, which GetFormat reports.
Stored(f) ==
  IF IsExtensible(f)
  THEN [f EXCEPT !.cbSize = ExtExtraSize,
                 !.wValidBitsPerSample = IF @ = 0 THEN f.wBitsPerSample ELSE @]
  ELSE [f EXCEPT !.cbSize = 0]

HasALFormat(p, exts) ==
  /\ p.type = "Float32" => "FLOAT32" \in exts
  /\ p.config \notin {"Mono", "Stereo"} => "MCFORMATS" \in exts

-----------------------------------------------------------------------------
(* What a buffer of each kind makes of a format: no pair, where it is      *)
(* refused.                                                                *)

\* SharedBuffer::Create does not mind a wrong byte rate, but for 0.
BufferFormat(f, exts) ==
  {p \in ConvertFormat(f) :
     /\ ValidFormat(f) /\ ValidRate(f) /\ f.nAvgBytesPerSec # 0
     /\ Complete(f) /\ HasALFormat(p, exts)}

\* DSCBuffer::Initialize, for which cbSize may be the size of all of it.
CaptureMask(config) == IF config = "Mono" THEN Center ELSE Front
CaptureFormat(f) ==
  {p \in [type : {"UInt8", "Int16"}, config : {"Mono", "Stereo"}] :
     /\ ValidFormat(f) /\ ValidRate(f) /\ f.nAvgBytesPerSec = BytesPerSec(f)
     /\ f.wFormatTag \in {"PCM", "EXTENSIBLE"}
     /\ Unpadded(f) /\ IsSample(p.type, f)
     /\ f.nChannels = Channels(p.config)
     /\ IsExtensible(f) => /\ f.cbSize \in {ExtExtraSize, ExtensibleSize}
                           /\ f.dwChannelMask = CaptureMask(p.config)}

\* PrimaryBuffer::SetFormat; an EXTENSIBLE that is too short is ignored.
PrimaryTakes(f) ==
  /\ Complete(f)
  /\ ValidFormat(f) /\ ValidRate(f) /\ f.nAvgBytesPerSec = BytesPerSec(f)
  /\ \/ Encoding(f) = "PCM" /\ f.wBitsPerSample <= 32
     \/ Encoding(f) = "IEEE_FLOAT" /\ f.wBitsPerSample = 32
  /\ IsExtensible(f) => f.wValidBitsPerSample <= f.wBitsPerSample

\* The size that createWriteEmu asks for.
EmuBytes(f) == PrimaryBufSize - (PrimaryBufSize % f.nBlockAlign)

\* What an application reads of a format d by GetFormat is as long as
\* cbSize says; the rest of its own structure is anything.
MayReport(d, g) ==
  LET Header == {"wFormatTag", "nChannels", "nSamplesPerSec", "nAvgBytesPerSec",
                 "nBlockAlign", "wBitsPerSample", "cbSize"}
  IN /\ \A field \in Header : g[field] = d[field]
     /\ d.cbSize >= ExtExtraSize =>
          /\ g.wValidBitsPerSample = d.wValidBitsPerSample
          /\ g.dwChannelMask = d.dwChannelMask /\ g.SubFormat = d.SubFormat

\* The formats of mmsystem.h that GetCaps of a capture object lists, at any
\* of the sample rates that the GetCaps of a sound object gives.
Advertised(f) ==
  /\ f.wFormatTag = "PCM" /\ f.nChannels \in {1, 2} /\ f.wBitsPerSample \in {8, 16}
  /\ f.nBlockAlign = f.nChannels * (f.wBitsPerSample \div 8)
  /\ ValidRate(f) /\ f.nAvgBytesPerSec = f.nSamplesPerSec * f.nBlockAlign

-----------------------------------------------------------------------------
(* What they promise.                                                      *)

(* A format that a buffer accepts has one OpenAL format, whose frames are  *)
(* the format's blocks: a position in one is the same bytes in the other.  *)
FramesAreBlocks(f, exts) ==
  \A p \in BufferFormat(f, exts) \cup CaptureFormat(f) :
    /\ FrameSize(p) = f.nBlockAlign
    /\ \A q \in BufferFormat(f, exts) \cup CaptureFormat(f) : q = p

(* The data of a buffer is a whole number of OpenAL frames.                *)
BuffersAreWhole(f, bytes, exts) ==
  \A p \in BufferFormat(f, exts) :
    Created(f, bytes) => BufSize(f, bytes) % FrameSize(p) = 0

(* A buffer can be made again from the format that one reports, and has    *)
(* the same OpenAL format.                                                 *)
ReportedIsAccepted(f, g, exts) ==
  MayReport(Stored(f), g) /\ BufferFormat(f, exts) # {} =>
    BufferFormat(g, exts) = BufferFormat(f, exts)

(* What was captured can be played as it is, and captured again, whatever  *)
(* OpenAL's extensions are.                                                *)
CapturedIsPlayable(f, g, exts) ==
  MayReport(Stored(f), g) /\ CaptureFormat(f) # {} =>
    /\ BufferFormat(g, exts) = CaptureFormat(f)
    /\ CaptureFormat(g) = CaptureFormat(f)

(* The primary buffer takes every format with an exact byte rate that a    *)
(* secondary buffer takes, and its write emulation gets the OpenAL format  *)
(* that a secondary buffer would have; it gets none where that would have  *)
(* none.                                                                   *)
EmulationIsExact(f, exts) ==
  /\ BufferFormat(f, exts) # {} /\ f.nAvgBytesPerSec = BytesPerSec(f) =>
       PrimaryTakes(f)
  /\ PrimaryTakes(f) => BufferFormat(Stored(f), exts) = BufferFormat(f, exts)

(* The write emulation gets the size it asks for, in whatever format.      *)
EmulationFits(f, exts) ==
  PrimaryTakes(f) /\ BufferFormat(f, exts) # {} =>
    Created(f, EmuBytes(f)) /\ BufSize(f, EmuBytes(f)) = EmuBytes(f)

(* The formats that GetCaps lists can be captured and played, with no      *)
(* extension of OpenAL, and the primary buffer takes them.                 *)
AdvertisedIsAccepted(f, exts) ==
  Advertised(f) =>
    /\ CaptureFormat(f) # {} /\ BufferFormat(f, exts) = CaptureFormat(f)
    /\ PrimaryTakes(f)
=============================================================================
